---- MODULE Spec2Model ----
(***************************************************************************)
(* A model of ai_core: the model-identifier resolution and adapter         *)
(* selection of models.py, the capability descriptor builder of tools.py,  *)
(* the adapter base class of wrappers/base.py and the client of client.py. *)
(*                                                                         *)
(* Strings are sequences of atoms.  An atom is a TLA+ string that stands   *)
(* for an indivisible run of characters containing no colon; the colon is  *)
(* the atom ":".  Python's None is the empty tuple and a present value x   *)
(* is the one-element tuple <<x>>.                                         *)
(***************************************************************************)
EXTENDS Integers, Sequences, FiniteSets, TLC

VARIABLES
    model_name,      \* AI.model_name
    system_prompt,   \* AI.system_prompt
    tools,           \* AI.tools
    debug,           \* AI.debug
    client,          \* AI.client, the adapter built by the constructor
    history,         \* AI._history
    last_reasoning,  \* AI._last_reasoning
    tokenLog,        \* the rows appended to the token-usage sink
    lastCall,        \* what the most recent client call did
    turnInputs,      \* the texts of the conversation turns that returned
    nCalls,          \* the number of client calls made
    nRequests,       \* the number of them that reached the adapter
    fnIn,            \* the input of the pure function under check
    fnOut,           \* its result, once applied
    threads,         \* each concurrent caller's position in conversation()
    overlapped       \* whether two conversation() calls have overlapped

vars == <<model_name, system_prompt, tools, debug, client, history, last_reasoning,
          tokenLog, lastCall, turnInputs, nCalls, nRequests, fnIn, fnOut,
          threads, overlapped>>

clientVars == <<model_name, system_prompt, tools, debug, client, history,
                last_reasoning, tokenLog, lastCall, turnInputs, nCalls,
                nRequests, threads, overlapped>>

fnVars == <<fnIn, fnOut>>

threadVars == <<threads, overlapped>>

\* ------------------------------------------------------------------ basics

None == <<>>

Some(x) == <<x>>

\* Python truthiness of an optional string (None and "" are falsy).
Truthy(opt) == opt # None /\ opt[1] # ""

\* Python truthiness of an optional text (None and the empty text are falsy).
TruthyText(opt) == opt # None /\ opt[1] # <<>>

\* Python's `a or b` on optional strings.
OrElse(a, b) == IF Truthy(a) THEN a ELSE b

Range(s) == {s[i] : i \in 1..Len(s)}

IsPrefix(s, t) == Len(s) <= Len(t) /\ SubSeq(t, 1, Len(s)) = s

\* All sequences over S of length at most n.
SeqsUpTo(S, n) == UNION {[1..k -> S] : k \in 0..n}

\* ------------------------------------------------------------- models.py

_SUPPORTED_PROVIDERS ==
    {"anthropic", "google", "openai", "deepseek", "perplexity", "mock"}

_MODEL_ALIASES ==
    [a \in {"haiku", "sonnet", "opus3", "sonnet3.5", "sonnet3.7", "haiku3.5",
            "opus4", "sonnet4", "opus4.1", "sonnet4.5",
            "gemini1.0", "gemini1.5", "gemini2.0flash", "gemini2.0flashlite",
            "gemini2.0flashthinking", "gemini2.0exp", "gemini2.5exp",
            "gemini2.5pro", "gemini2.5flash", "gemini2.5flashlite",
            "gemini3.0pro",
            "gpt5.1", "pgt5.1instant", "gpt5", "gpt5-mini", "gpt5-nano",
            "gpt3.5", "gpt4", "gpt4o", "mini", "o1-preview", "o1-mini", "o1",
            "o3", "o4-mini", "gpt4.1",
            "deepseek-chat", "deepseek-reasoner",
            "sonar", "sonar-pro",
            "mock"} |->
       CASE a = "haiku" -> <<"anthropic", ":", "claude-3-haiku-20240307">>
         [] a = "sonnet" -> <<"anthropic", ":", "claude-3-sonnet-20240229">>
         [] a = "opus3" -> <<"anthropic", ":", "claude-3-opus-20240229">>
         [] a = "sonnet3.5" -> <<"anthropic", ":", "claude-3-5-sonnet-latest">>
         [] a = "sonnet3.7" -> <<"anthropic", ":", "claude-3-7-sonnet-latest">>
         [] a = "haiku3.5" -> <<"anthropic", ":", "claude-3-5-haiku-latest">>
         [] a = "opus4" -> <<"anthropic", ":", "claude-opus-4-20250514">>
         [] a = "sonnet4" -> <<"anthropic", ":", "claude-sonnet-4-20250514">>
         [] a = "opus4.1" -> <<"anthropic", ":", "claude-opus-4-1-20250805">>
         [] a = "sonnet4.5" -> <<"anthropic", ":", "claude-sonnet-4-5-20250929">>
         [] a = "gemini1.0" -> <<"google", ":", "gemini-1.0-pro-latest">>
         [] a = "gemini1.5" -> <<"google", ":", "gemini-1.5-pro-latest">>
         [] a = "gemini2.0flash" -> <<"google", ":", "gemini-flash">>
         [] a = "gemini2.0flashlite" -> <<"google", ":", "gemini-flash-lite">>
         [] a = "gemini2.0flashthinking" -> <<"google", ":", "gemini-flash-thinking-exp">>
         [] a = "gemini2.0exp" -> <<"google", ":", "gemini-exp-1206">>
         [] a = "gemini2.5exp" -> <<"google", ":", "gemini-2.5-pro-exp-03-25">>
         [] a = "gemini2.5pro" -> <<"google", ":", "gemini-2.5-pro-preview-03-25">>
         [] a = "gemini2.5flash" -> <<"google", ":", "gemini-2.5-flash">>
         [] a = "gemini2.5flashlite" -> <<"google", ":", "gemini-2.5-flash-lite">>
         [] a = "gemini3.0pro" -> <<"google", ":", "gemini-3-pro-preview">>
         [] a = "gpt5.1" -> <<"openai", ":", "gpt-5.1">>
         [] a = "pgt5.1instant" -> <<"openai", ":", "gpt-5.1-chat-latest">>
         [] a = "gpt5" -> <<"openai", ":", "gpt-5">>
         [] a = "gpt5-mini" -> <<"openai", ":", "gpt-5-mini">>
         [] a = "gpt5-nano" -> <<"openai", ":", "gpt-5-nano">>
         [] a = "gpt3.5" -> <<"openai", ":", "gpt-3.5-turbo">>
         [] a = "gpt4" -> <<"openai", ":", "gpt-4-turbo-preview">>
         [] a = "gpt4o" -> <<"openai", ":", "gpt-4o">>
         [] a = "mini" -> <<"openai", ":", "gpt-4o-mini">>
         [] a = "o1-preview" -> <<"openai", ":", "o1-preview">>
         [] a = "o1-mini" -> <<"openai", ":", "o1-mini">>
         [] a = "o1" -> <<"openai", ":", "o1-2024-12-17">>
         [] a = "o3" -> <<"openai", ":", "o3">>
         [] a = "o4-mini" -> <<"openai", ":", "o4-mini">>
         [] a = "gpt4.1" -> <<"openai", ":", "gpt-4.1">>
         [] a = "deepseek-chat" -> <<"deepseek", ":", "deepseek-chat">>
         [] a = "deepseek-reasoner" -> <<"deepseek", ":", "deepseek-reasoner">>
         [] a = "sonar" -> <<"perplexity", ":", "sonar">>
         [] a = "sonar-pro" -> <<"perplexity", ":", "sonar-pro">>
         [] a = "mock" -> <<"mock", ":", "mock-model">>]

\* A lookup that answers every identifier with the default alias's entry.
AliasGetDefault(id) == Some(_MODEL_ALIASES["sonnet4"])

\* _MODEL_ALIASES.get(model_identifier): None when the identifier is no key.
AliasGet(id) ==
    IF Len(id) = 1 /\ id[1] \in DOMAIN _MODEL_ALIASES
    THEN Some(_MODEL_ALIASES[id[1]])
    ELSE None

\* `":" in s`
HasColon(s) == \E i \in 1..Len(s) : s[i] = ":"

\* s.split(":", 1) of a string holding a colon: the parts around the first one.
FirstColon(s) == CHOOSE i \in 1..Len(s) : s[i] = ":" /\ \A j \in 1..(i - 1) : s[j] # ":"

SplitBefore(s) == SubSeq(s, 1, FirstColon(s) - 1)

SplitAfter(s) == SubSeq(s, FirstColon(s) + 1, Len(s))

\* A membership test that lets every provider through.
IsSupportedAny(p) == Len(p) >= 1

\* `provider in _SUPPORTED_PROVIDERS` for a string given as atoms.
IsSupported(p) == Len(p) = 1 /\ p[1] \in _SUPPORTED_PROVIDERS

Resolved(p, m) == [ok |-> TRUE, provider |-> p, model_name |-> m, error |-> <<>>]

ResolveError(msg) == [ok |-> FALSE, provider |-> "", model_name |-> <<>>, error |-> msg]

\* The second half of resolve_model_info: parse the canonical identifier.
ParseCanonical(canonical, id) ==
    LET Parsed(provider, name) ==
            IF provider = <<>> \/ name = <<>> \/ ~IsSupported(provider)
            THEN ResolveError(<<"Internal Error: Failed to parse canonical identifier '">>
                              \o canonical \o <<"' derived from '">> \o id \o <<"'">>)
            ELSE Resolved(provider[1], name)
    IN  Parsed(SplitBefore(canonical), SplitAfter(canonical))

resolve_model_info(model_identifier) ==
    LET \* the checks of the "provider:model_name" branch: the error they
        \* raise, or <<>>
        Checked(provider_check, model_name_check) ==
            IF provider_check = <<>> \/ model_name_check = <<>>
            THEN <<"Malformed identifier">>
            ELSE IF IsSupported(provider_check)
            THEN <<>>
            ELSE <<"Unsupported provider '">> \o provider_check
                 \o <<"' in identifier: ">> \o model_identifier
        \* the first half: the canonical identifier, or the error raised
        Canonical(canonical_identifier) ==
            IF canonical_identifier # None
            THEN [error |-> <<>>, canonical |-> canonical_identifier[1]]
            ELSE IF HasColon(model_identifier)
            THEN [error |-> Checked(SplitBefore(model_identifier),
                                    SplitAfter(model_identifier)),
                  canonical |-> model_identifier]
            ELSE [error |-> <<"Unknown or unsupported model identifier alias: ">>
                            \o model_identifier,
                  canonical |-> model_identifier]
        Resolve(c) ==
            IF c.error # <<>> THEN ResolveError(c.error)
            ELSE ParseCanonical(c.canonical, model_identifier)
    IN  Resolve(Canonical(AliasGet(model_identifier)))

\* The providers that need a credential, with the name the error message gives
\* them and their environment variable.
KeyedProviders == {"anthropic", "google", "openai", "deepseek", "perplexity"}

ProviderTitle(p) ==
    CASE p = "anthropic" -> "Anthropic"
      [] p = "google" -> "Google"
      [] p = "openai" -> "OpenAI"
      [] p = "deepseek" -> "DeepSeek"
      [] p = "perplexity" -> "Perplexity"

EnvVarOf(p) ==
    CASE p = "anthropic" -> "ANTHROPIC_API_KEY"
      [] p = "google" -> "GOOGLE_API_KEY"
      [] p = "openai" -> "OPENAI_API_KEY"
      [] p = "deepseek" -> "DEEPSEEK_API_KEY"
      [] p = "perplexity" -> "PERPLEXITY_API_KEY"

\* The key argument of get_wrapper that belongs to a provider.
KeyArgOf(p) ==
    CASE p = "anthropic" -> "claude_api_key"
      [] p = "google" -> "gemini_api_key"
      [] p = "openai" -> "openai_api_key"
      [] p = "deepseek" -> "deepseek_api_key"
      [] p = "perplexity" -> "perplexity_api_key"

WrapperClassOf(p) ==
    CASE p = "anthropic" -> "ClaudeWrapper"
      [] p = "google" -> "GeminiWrapper"
      [] p = "openai" -> "GPTWrapper"
      [] p = "deepseek" -> "DeepSeekWrapper"
      [] p = "perplexity" -> "PerplexityWrapper"
      [] p = "mock" -> "MockWrapper"

\* os.environ.get(name)
EnvGet(env, name) == IF name \in DOMAIN env THEN env[name] ELSE None

\* The lookup with its two sources in the wrong order.
ApiKeyForEnvFirst(p, keys, env) == OrElse(EnvGet(env, EnvVarOf(p)), keys[KeyArgOf(p)])

\* `api_key = <key argument> or os.environ.get(<variable>)`
ApiKeyFor(p, keys, env) == OrElse(keys[KeyArgOf(p)], EnvGet(env, EnvVarOf(p)))

MissingKeyMessage(p) ==
    <<ProviderTitle(p), " API key must be provided via argument or ",
      EnvVarOf(p), " env var for ", ProviderTitle(p), " models.">>

\* An adapter object: its class, the key its SDK handle was built with and, for
\* GeminiWrapper, the model name kept in self.model_name.
Wrapper(class, key, model) ==
    [ok |-> TRUE, class |-> class, api_key |-> key, model_name |-> model,
     error |-> <<>>]

WrapperError(msg) ==
    [ok |-> FALSE, class |-> "", api_key |-> None, model_name |-> None,
     error |-> msg]

\* A construction that settles for the key of any provider when the resolved
\* provider has none.
WrapperForAnyKey(provider, name, keys, env) ==
    LET given == {k \in DOMAIN keys : Truthy(keys[k])}
        Keyed(api_key) ==
            IF ~Truthy(api_key)
            THEN IF given = {}
                 THEN WrapperError(MissingKeyMessage(provider))
                 ELSE Wrapper(WrapperClassOf(provider),
                              keys[CHOOSE k \in given : TRUE],
                              IF provider = "google" THEN Some(name) ELSE None)
            ELSE Wrapper(WrapperClassOf(provider), api_key,
                         IF provider = "google" THEN Some(name) ELSE None)
    IN  IF provider = "mock"
        THEN Wrapper("MockWrapper", None, None)
        ELSE Keyed(ApiKeyFor(provider, keys, env))

\* The adapter get_wrapper builds for a resolved provider.
WrapperFor(provider, name, keys, env) ==
    LET Keyed(api_key) ==
            IF ~Truthy(api_key)
            THEN WrapperError(MissingKeyMessage(provider))
            ELSE Wrapper(WrapperClassOf(provider), api_key,
                         IF provider = "google" THEN Some(name) ELSE None)
    IN  IF provider = "mock"
        THEN Wrapper("MockWrapper", None, None)
        ELSE Keyed(ApiKeyFor(provider, keys, env))

get_wrapper(model_identifier, keys, env) ==
    LET Built(r) ==
            IF ~r.ok
            THEN WrapperError(<<"Failed to resolve model identifier '">>
                              \o model_identifier \o <<"': ">> \o r.error)
            ELSE WrapperFor(r.provider, r.model_name, keys, env)
    IN  Built(resolve_model_info(model_identifier))

\* -------------------------------------------------------------- tools.py

\* A declared type: the classes str, int, float and bool, a Literal with its
\* arguments, an Enum class with its members (name and value), or another type.
AnnStr == [kind |-> "str", args |-> <<>>]

AnnInt == [kind |-> "int", args |-> <<>>]

AnnFloat == [kind |-> "float", args |-> <<>>]

AnnBool == [kind |-> "bool", args |-> <<>>]

AnnLiteral(values) == [kind |-> "Literal", args |-> values]

AnnEnum(members) == [kind |-> "Enum", args |-> members]

AnnOther == [kind |-> "other", args |-> <<>>]

\* str(arg) of a Literal argument: a string stays, an integer n prints as
\* its digits.
StrOf(arg) == IF arg.type = "str" THEN arg.value ELSE arg.digits

\* A result with every parameter marked optional.
ToolParameterNeverRequired(type, description, has_default, enum) ==
    [type |-> type, description |-> description, required |-> FALSE,
     enum |-> enum]

\* ToolParameter(type=, description=, required=param.default == empty, enum=)
ToolParameter(type, description, has_default, enum) ==
    [type |-> type, description |-> description, required |-> ~has_default,
     enum |-> enum]

\* A conversion that forgets the values of a Literal.
_get_parameter_type_no_literals(annotation) ==
    CASE annotation.kind = "str" -> <<"string", None>>
      [] annotation.kind = "int" -> <<"integer", None>>
      [] annotation.kind = "float" -> <<"number", None>>
      [] annotation.kind = "bool" -> <<"boolean", None>>
      [] annotation.kind = "Enum" ->
            <<"string", Some([i \in 1..Len(annotation.args) |->
                                annotation.args[i].name])>>
      [] OTHER -> <<"string", None>>

\* A conversion that lists the members of an Enum last to first.
_get_parameter_type_reversed_members(annotation) ==
    CASE annotation.kind = "str" -> <<"string", None>>
      [] annotation.kind = "int" -> <<"integer", None>>
      [] annotation.kind = "float" -> <<"number", None>>
      [] annotation.kind = "bool" -> <<"boolean", None>>
      [] annotation.kind = "Literal" ->
            <<"string", Some([i \in 1..Len(annotation.args) |->
                                StrOf(annotation.args[i])])>>
      [] annotation.kind = "Enum" ->
            <<"string", Some([i \in 1..Len(annotation.args) |->
                annotation.args[Len(annotation.args) + 1 - i].name])>>
      [] OTHER -> <<"string", None>>

_get_parameter_type(annotation) ==
    CASE annotation.kind = "str" -> <<"string", None>>
      [] annotation.kind = "int" -> <<"integer", None>>
      [] annotation.kind = "float" -> <<"number", None>>
      [] annotation.kind = "bool" -> <<"boolean", None>>
      [] annotation.kind = "Literal" ->
            <<"string", Some([i \in 1..Len(annotation.args) |->
                                StrOf(annotation.args[i])])>>
      [] annotation.kind = "Enum" ->
            <<"string", Some([i \in 1..Len(annotation.args) |->
                                annotation.args[i].name])>>
      [] OTHER -> <<"string", None>>

\* type_hints.get(name, str): an undeclared type counts as str.
TypeHint(param) == IF param.annotation = None THEN AnnStr ELSE param.annotation[1]

ToolOk(t) == [ok |-> TRUE, tool |-> t, error |-> <<>>]

\* An error that does not say which parameter it is about.
ToolErrorUnnamed(msg) ==
    [ok |-> FALSE, tool |-> <<>>, error |-> <<"Missing description">>]

\* raise ValueError(msg) inside the decorator: func.tool is never assigned.
ToolError(msg) == [ok |-> FALSE, tool |-> <<>>, error |-> msg]

\* The loop of the decorator over sig.parameters: the entries of tool_params
\* in insertion order, or the error raised at the first undescribed parameter.
RECURSIVE BuildToolParams(_, _, _)
BuildToolParams(params, parameter_descriptions, tool_params) ==
    LET Entry(param, pt) ==
            [name |-> param.name,
             param |-> ToolParameter(pt[1], parameter_descriptions[param.name],
                                     param.has_default, pt[2])]
        Step(param) ==
            IF param.name \notin DOMAIN parameter_descriptions
            THEN [ok |-> FALSE, params |-> <<>>,
                  error |-> <<"Missing description for parameter '",
                              param.name, "'">>]
            ELSE BuildToolParams(
                     Tail(params), parameter_descriptions,
                     Append(tool_params,
                            Entry(param, _get_parameter_type(TypeHint(param)))))
    IN  IF params = <<>>
        THEN [ok |-> TRUE, params |-> tool_params, error |-> <<>>]
        ELSE Step(Head(params))

\* tool(description, safe, **parameter_descriptions)(func): the Tool attached
\* to func as func.tool, or the error raised.
tool_decorator(description, safe, parameter_descriptions, func) ==
    LET Attach(built) ==
            IF ~built.ok
            THEN ToolError(built.error)
            ELSE ToolOk([func |-> func.name, name |-> func.name,
                         description |-> description,
                         parameters |-> built.params, safe |-> safe])
    IN  Attach(BuildToolParams(func.params, parameter_descriptions, <<>>))

\* -------------------------------------------------------------- types.py

\* The fields of a MessageContent, before validation.
ContentFields(type, text, tool_call, tool_result, image) ==
    [type |-> type, text |-> text, tool_call |-> tool_call,
     tool_result |-> tool_result, image |-> image]

\* A validation that accepts any image payload.
PostInitRaisesAnyImage(c) ==
    \/ c.type = "text" /\ c.text = None
    \/ c.type = "tool_use" /\ c.tool_call = None
    \/ c.type = "tool_result" /\ c.tool_result = None
    \/ c.type = "image" /\ c.image = None

\* MessageContent.__post_init__: whether construction raises ValueError.
PostInitRaises(c) ==
    \/ c.type = "text" /\ c.text = None
    \/ c.type = "tool_use" /\ c.tool_call = None
    \/ c.type = "tool_result" /\ c.tool_result = None
    \/ c.type = "image" /\ c.image = None
    \/ c.type = "image" /\ c.image # None
         /\ ~({"type", "media_type", "data"} \subseteq DOMAIN c.image[1])

\* MessageContent(type=..., text=..., ...): the block, or failure.
MessageContent(type, text, tool_call, tool_result, image) ==
    LET c == ContentFields(type, text, tool_call, tool_result, image)
    IN  [ok |-> ~PostInitRaises(c), block |-> c]

\* MessageContent(type="text", text=t) for a string t.
TextBlock(t) == ContentFields("text", Some(t), None, None, None)

Message(role, content) == [role |-> role, content |-> content]

\* ToolCall(name, arguments, id) and ToolResult(name, result, tool_call_id, error)
ToolCall(name, arguments, id) == [name |-> name, arguments |-> arguments, id |-> id]

ToolResult(name, result, tool_call_id, error) ==
    [name |-> name, result |-> result, tool_call_id |-> tool_call_id,
     error |-> error]

\* ------------------------------------------------------------- tokens.py

\* len() of an atom: the fixed lines of the mock adapter's report and the
\* numbers it prints have their length in characters, any other atom is one
\* character.
AtomLen(a) ==
    CASE a = "---PARAMETERS START---\n" -> 23
      [] a = "max_tokens: " -> 12
      [] a = "temperature: " -> 13
      [] a = "thinking: enabled\n" -> 18
      [] a = "thinking_budget_tokens: " -> 24
      [] a = "---PARAMETERS END---\n" -> 21
      [] a = "---SYSTEM PROMPT START---\n" -> 26
      [] a = "---SYSTEM PROMPT END---\n" -> 24
      [] a = "---TOOLS START---\n" -> 18
      [] a = "---TOOLS END---\n" -> 16
      [] a = "Tool: " -> 6
      [] a = "Description: " -> 13
      [] a = "Parameters:\n" -> 12
      [] a = "  - " -> 4
      [] a = ":\n" -> 2
      [] a = "    type: " -> 10
      [] a = "    description: " -> 17
      [] a = "    required: " -> 14
      [] a = "    enum: " -> 10
      [] a = "---MESSAGES START---\n" -> 21
      [] a = "---MESSAGES END---\n" -> 19
      [] a = "role: " -> 6
      [] a = "content: \n" -> 10
      [] a = "[tool_use: " -> 11
      [] a = "[tool_result: " -> 14
      [] a = "]\n" -> 2
      [] a = "4096" -> 4
      [] a = "0.0" -> 3
      [] a = "auto" -> 4
      [] a = "user" -> 4
      [] a = "assistant" -> 9
      [] a = "system" -> 6
      [] a = "True" -> 4
      [] a = "False" -> 5
      [] OTHER -> 1

\* len(text): the lengths of the atoms, summed by halves.
RECURSIVE TextLen(_)
TextLen(text) ==
    IF text = <<>> THEN 0
    ELSE IF Len(text) = 1 THEN AtomLen(text[1])
    ELSE TextLen(SubSeq(text, 1, Len(text) \div 2))
         + TextLen(SubSeq(text, Len(text) \div 2 + 1, Len(text)))

n_tokens(text) == TextLen(text) \div 4

\* get_image_dimensions_from_base64(data): (width, height), or None when the
\* data does not decode to an image PIL can open, in which case it raises.
ImageDimensions(data) ==
    CASE data = "png-64x48" -> Some(<<64, 48>>)
      [] data = "png-30x25" -> Some(<<30, 25>>)
      [] OTHER -> None

\* The content blocks of a message list, in order.
RECURSIVE AllBlocks(_)
AllBlocks(messages) ==
    IF messages = <<>> THEN <<>>
    ELSE Head(messages).content \o AllBlocks(Tail(messages))

\* n_tokens_images(images): None when a dimension lookup raises.
RECURSIVE n_tokens_images(_)
n_tokens_images(images) ==
    IF images = <<>> THEN Some(0)
    ELSE LET dim == ImageDimensions(Head(images)["data"])
             rest == n_tokens_images(Tail(images))
         IN  IF dim = None \/ rest = None THEN None
             ELSE Some((dim[1][1] * dim[1][2]) \div 750 + rest[1])

\* The text count_tokens_input accumulates: the system prompt, then every
\* text block.
RECURSIVE InputText(_, _)
InputText(text, blocks) ==
    IF blocks = <<>> THEN text
    ELSE InputText(IF Head(blocks).type = "text"
                   THEN text \o Head(blocks).text[1] ELSE text,
                   Tail(blocks))

\* The images count_tokens_input collects.
RECURSIVE InputImages(_)
InputImages(blocks) ==
    IF blocks = <<>> THEN <<>>
    ELSE (IF Head(blocks).type = "image" THEN <<Head(blocks).image[1]>> ELSE <<>>)
         \o InputImages(Tail(blocks))

\* count_tokens_input(messages, system_prompt): None when it raises.
count_tokens_input(messages, prompt) ==
    LET Total(blocks, imgs) ==
            IF imgs = None THEN None
            ELSE Some(n_tokens(InputText(prompt, blocks)) + imgs[1])
        Count(blocks) == Total(blocks, n_tokens_images(InputImages(blocks)))
    IN  Count(AllBlocks(messages))

count_tokens_output(response_content) ==
    IF response_content = None THEN 0 ELSE n_tokens(response_content[1])

\* The row log_token_use(model, n_tokens, input) appends to the sink.
log_token_use(model, n, input) ==
    [model |-> model, direction |-> IF input THEN "input" ELSE "output",
     n_tokens |-> n]

\* ------------------------------------------------------- wrappers/base.py

AIResponse(content, tool_calls, reasoning, error) ==
    [content |-> content, tool_calls |-> tool_calls, reasoning |-> reasoning,
     error |-> error]

\* What an adapter's _messages did: the response it returned or the exception
\* it raised, the requests it sent to its backend, in order.
Returned(response, requests) ==
    [ok |-> TRUE, response |-> response, error |-> <<>>, requests |-> requests]

Raised(msg, requests) ==
    [ok |-> FALSE, response |-> AIResponse(None, None, None, None),
     error |-> msg, requests |-> requests]

\* The arguments of AIWrapper.messages / _messages.
AdapterArgs(name, messages, prompt, max_tokens, temperature, tool_list, thinking, thinking_budget_tokens) ==
    [model_name |-> name, messages |-> messages, system_prompt |-> prompt,
     max_tokens |-> max_tokens, temperature |-> temperature,
     tools |-> tool_list, thinking |-> thinking,
     thinking_budget_tokens |-> thinking_budget_tokens]

\* ------------------------------------------------------- wrappers/mock.py

RECURSIVE Flatten(_)
Flatten(texts) == IF texts = <<>> THEN <<>> ELSE Head(texts) \o Flatten(Tail(texts))

\* f"{x}" of an optional integer.
FormatOptInt(x) == IF x = None THEN <<"None">> ELSE <<ToString(x[1])>>

\* f"{thinking_budget_tokens or 'auto'}"
FormatBudget(b) == IF b = None \/ b[1] = 0 THEN <<"auto">> ELSE <<ToString(b[1])>>

\* f"{param.enum}" of a non-empty list of strings.
FormatList(values) ==
    <<"[">> \o Flatten([i \in 1..Len(values) |->
                (IF i > 1 THEN <<", ">> ELSE <<>>) \o <<"'", values[i], "'">>])
    \o <<"]">>

MockParameter(entry) ==
    <<"  - ", entry.name, ":\n", "    type: ", entry.param.type, "\n",
      "    description: ">> \o entry.param.description \o <<"\n",
      "    required: ", IF entry.param.required THEN "True" ELSE "False", "\n">>
    \o (IF entry.param.enum # None /\ entry.param.enum[1] # <<>>
        THEN <<"    enum: ">> \o FormatList(entry.param.enum[1]) \o <<"\n">>
        ELSE <<>>)

MockTool(t) ==
    <<"Tool: ", t.name, "\n", "Description: ">> \o t.description
    \o <<"\n", "Parameters:\n">>
    \o Flatten([i \in 1..Len(t.parameters) |-> MockParameter(t.parameters[i])])
    \o <<"\n">>

\* repr() of a ToolCall and of a ToolResult, as the mock prints them.
ReprToolCall(c) ==
    <<"ToolCall(name='", c.name, "', arguments=", c.arguments, ", id=">>
    \o (IF c.id = None THEN <<"None">> ELSE <<"'", c.id[1], "'">>) \o <<")">>

ReprOpt(x) == IF x = None THEN <<"None">> ELSE <<"'">> \o x[1] \o <<"'">>

ReprToolResult(r) ==
    <<"ToolResult(name='", r.name, "', result=">> \o ReprOpt(r.result)
    \o <<", tool_call_id=">>
    \o (IF r.tool_call_id = None THEN <<"None">> ELSE <<"'", r.tool_call_id[1], "'">>)
    \o <<", error=">> \o ReprOpt(r.error) \o <<")">>

MockContent(c) ==
    CASE c.type = "text" -> c.text[1] \o <<"\n">>
      [] c.type = "tool_use" -> <<"[tool_use: ">> \o ReprToolCall(c.tool_call[1]) \o <<"]\n">>
      [] c.type = "tool_result" ->
            <<"[tool_result: ">> \o ReprToolResult(c.tool_result[1]) \o <<"]\n">>
      [] OTHER -> <<>>

MockMessage(m) ==
    <<"role: ", m.role, "\n", "content: \n">>
    \o Flatten([i \in 1..Len(m.content) |-> MockContent(m.content[i])])

MockReasoning(b) ==
    <<"Mock reasoning: This is a simulated chain of thought from the mock wrapper.\n",
      "I would have used up to ">> \o FormatBudget(b)
    \o <<" tokens for this reasoning.\n",
         "Step 1: First, I analyze the problem...\n",
         "Step 2: Then, I consider possible approaches...\n",
         "Step 3: Finally, I select the best solution...\n">>

\* MockWrapper._messages: the report of what it was given; it has no backend.
Mock_messages(a) ==
    LET response ==
            <<"---PARAMETERS START---\n", "max_tokens: ">>
            \o FormatOptInt(a.max_tokens) \o <<"\n", "temperature: ", a.temperature, "\n">>
            \o (IF a.thinking
                THEN <<"thinking: enabled\n", "thinking_budget_tokens: ">>
                     \o FormatBudget(a.thinking_budget_tokens) \o <<"\n">>
                ELSE <<>>)
            \o <<"---PARAMETERS END---\n", "---SYSTEM PROMPT START---\n">>
            \o a.system_prompt \o <<"\n", "---SYSTEM PROMPT END---\n">>
            \o (IF a.tools # <<>>
                THEN <<"---TOOLS START---\n">>
                     \o Flatten([i \in 1..Len(a.tools) |-> MockTool(a.tools[i])])
                     \o <<"---TOOLS END---\n">>
                ELSE <<>>)
            \o <<"---MESSAGES START---\n">>
            \o Flatten([i \in 1..Len(a.messages) |-> MockMessage(a.messages[i])])
            \o <<"---MESSAGES END---\n">>
    IN  Returned(AIResponse(Some(response), None,
                            IF a.thinking
                            THEN Some(MockReasoning(a.thinking_budget_tokens))
                            ELSE None,
                            None),
                 <<>>)

\* -------------------------------------------------- wrappers/anthropic.py

\* The schema of one parameter: the enum key is present only for a non-empty
\* enum.
ParamSchema(entry) ==
    [name |-> entry.name, type |-> entry.param.type,
     description |-> entry.param.description,
     enum |-> IF entry.param.enum # None /\ entry.param.enum[1] # <<>>
              THEN entry.param.enum ELSE None]

\* The names of the required parameters, in order.
RequiredNames(t) ==
    LET IsReq(entry) == entry.param.required
        req == SelectSeq(t.parameters, IsReq)
    IN  [i \in 1..Len(req) |-> req[i].name]

PropertiesOf(t) == [i \in 1..Len(t.parameters) |-> ParamSchema(t.parameters[i])]

ClaudeTool(t) ==
    [name |-> t.name, description |-> t.description,
     input_schema |-> [type |-> "object", properties |-> PropertiesOf(t),
                       required |-> RequiredNames(t)]]

\* claude_tools: None unless the tool list is non-empty.
ClaudeTools(tool_list) ==
    IF tool_list = <<>> THEN None
    ELSE Some([i \in 1..Len(tool_list) |-> ClaudeTool(tool_list[i])])

\* One content block in Claude's format; a block of another type is left out.
ClaudeContent(c) ==
    CASE c.type = "text" -> <<[type |-> "text", text |-> c.text[1]]>>
      [] c.type = "tool_use" ->
            <<[type |-> "tool_use", id |-> c.tool_call[1].id,
               name |-> c.tool_call[1].name,
               input |-> c.tool_call[1].arguments]>>
      [] c.type = "tool_result" ->
            <<[type |-> "tool_result",
               tool_use_id |-> c.tool_result[1].tool_call_id,
               content |-> IF c.tool_result[1].result # None
                           THEN c.tool_result[1].result[1]
                           ELSE <<"Error: ">> \o
                                (IF c.tool_result[1].error = None
                                 THEN <<"None">> ELSE c.tool_result[1].error[1])]>>
      [] c.type = "image" ->
            <<[type |-> "image",
               source |-> [type |-> c.image[1]["type"],
                           media_type |-> c.image[1]["media_type"],
                           data |-> c.image[1]["data"]]]>>
      [] OTHER -> <<>>

ClaudeMessage(m) ==
    [role |-> m.role,
     content |-> Flatten([i \in 1..Len(m.content) |-> ClaudeContent(m.content[i])])]

ClaudeMessages(messages) ==
    [i \in 1..Len(messages) |-> ClaudeMessage(messages[i])]

\* `max_tokens or 4096`
ANTHROPIC_DEFAULT_MAX_TOKENS == 4096

THINKING_BUDGET_CEILING == 16000

MaxTokensOrDefault(max_tokens) ==
    IF max_tokens = None \/ max_tokens[1] = 0
    THEN ANTHROPIC_DEFAULT_MAX_TOKENS ELSE max_tokens[1]

Min(x, y) == IF x <= y THEN x ELSE y

\* A default budget without the ceiling.
ThinkingBudgetWithoutCeiling(max_tokens, thinking_budget_tokens) ==
    IF thinking_budget_tokens # None /\ thinking_budget_tokens[1] # 0
    THEN thinking_budget_tokens[1]
    ELSE MaxTokensOrDefault(max_tokens) \div 2

\* `budget = thinking_budget_tokens or min(16000, tokens // 2)`
ThinkingBudget(max_tokens, thinking_budget_tokens) ==
    IF thinking_budget_tokens # None /\ thinking_budget_tokens[1] # 0
    THEN thinking_budget_tokens[1]
    ELSE Min(THINKING_BUDGET_CEILING, MaxTokensOrDefault(max_tokens) \div 2)

\* The keyword arguments of client.messages.create.
ClaudeArguments(a) ==
    [model |-> a.model_name,
     max_tokens |-> MaxTokensOrDefault(a.max_tokens),
     temperature |-> IF a.thinking THEN "1.0" ELSE a.temperature,
     system |-> a.system_prompt,
     messages |-> ClaudeMessages(a.messages),
     thinking |-> IF a.thinking
                  THEN Some([type |-> "enabled",
                             budget_tokens |->
                                ThinkingBudget(a.max_tokens, a.thinking_budget_tokens)])
                  ELSE None,
     tools |-> ClaudeTools(a.tools)]

\* The loop over response.content.
RECURSIVE ClaudeParse(_, _, _, _)
ClaudeParse(blocks, content, tool_calls, reasoning) ==
    IF blocks = <<>>
    THEN AIResponse(Some(content),
                    IF tool_calls # <<>> THEN Some(tool_calls) ELSE None,
                    IF reasoning # <<>> THEN Some(reasoning) ELSE None,
                    None)
    ELSE LET block == Head(blocks)
         IN  CASE block.type = "text" ->
                    ClaudeParse(Tail(blocks), content \o block.text, tool_calls, reasoning)
               [] block.type = "tool_use" ->
                    ClaudeParse(Tail(blocks), content,
                                Append(tool_calls,
                                       ToolCall(block.name, block.input, Some(block.id))),
                                reasoning)
               [] block.type = "thinking" ->
                    ClaudeParse(Tail(blocks), content, tool_calls,
                                reasoning \o block.thinking)
               [] block.type = "redacted_thinking" ->
                    ClaudeParse(Tail(blocks), content, tool_calls,
                                reasoning \o
                                <<"[Some reasoning was redacted for safety reasons]\n">>)
               [] OTHER -> ClaudeParse(Tail(blocks), content, tool_calls, reasoning)

\* An adapter that returns the text and the reasoning and forgets the
\* tool calls.
Claude_messagesWithoutToolCalls(a, reply) ==
    LET Parsed(r) == AIResponse(r.content, None, r.reasoning, None)
        Create(arguments) ==
            IF reply.kind = "error"
            THEN Raised(<<"anthropic API error">>, <<arguments>>)
            ELSE Returned(Parsed(ClaudeParse(reply.content, <<>>, <<>>, <<>>)),
                          <<arguments>>)
    IN  Create(ClaudeArguments(a))

\* ClaudeWrapper._messages, given what the backend does with the request:
\* it raises, or it replies with a list of blocks.
Claude_messages(a, reply) ==
    LET Create(arguments) ==
            IF reply.kind = "error"
            THEN Raised(<<"anthropic API error">>, <<arguments>>)
            ELSE Returned(ClaudeParse(reply.content, <<>>, <<>>, <<>>),
                          <<arguments>>)
    IN  Create(ClaudeArguments(a))

\* ----------------------------------------------------- wrappers/openai.py

OpenAITool(t) ==
    [type |-> "function",
     function |-> [name |-> t.name, description |-> t.description,
                   parameters |-> [type |-> "object",
                                   properties |-> PropertiesOf(t),
                                   required |-> RequiredNames(t),
                                   additionalProperties |-> FALSE]]]

OpenAITools(tool_list) ==
    IF tool_list = <<>> THEN None
    ELSE Some([i \in 1..Len(tool_list) |-> OpenAITool(tool_list[i])])

\* A system message put after the caller's messages.
WithSystemMessageLast(prompt, messages) ==
    IF prompt # <<>>
    THEN messages \o <<Message("system", <<TextBlock(prompt)>>)>>
    ELSE messages

\* `if system_prompt: messages = [Message(role="system", ...)] + messages`
WithSystemMessage(prompt, messages) ==
    IF prompt # <<>>
    THEN <<Message("system", <<TextBlock(prompt)>>)>> \o messages
    ELSE messages

\* A conversion that leaves the text blocks out.
OpenAIContentImagesOnly(c) ==
    CASE c.type = "image" ->
            <<[type |-> "image_url",
               image_url |-> [url |-> <<"data:", c.image[1]["media_type"],
                                        ";base64,", c.image[1]["data"]>>]]>>
      [] OTHER -> <<>>

\* One content block of a message whose role is not "tool": text and images
\* are converted, a block of another type is left out.
OpenAIContent(c) ==
    CASE c.type = "text" -> <<[type |-> "text", text |-> c.text[1]]>>
      [] c.type = "image" ->
            <<[type |-> "image_url",
               image_url |-> [url |-> <<"data:", c.image[1]["media_type"],
                                        ";base64,", c.image[1]["data"]>>]]>>
      [] OTHER -> <<>>

\* The tool results of a message, in order.
ToolResultsOf(m) ==
    LET IsResult(c) == c.type = "tool_result"
        rs == SelectSeq(m.content, IsResult)
    IN  [i \in 1..Len(rs) |-> rs[i].tool_result[1]]

\* Whether converting a message raises: next() over a "tool" message that
\* holds no tool result.
OpenAIMessageRaises(m) == m.role = "tool" /\ ToolResultsOf(m) = <<>>

OpenAIMessage(m) ==
    LET ToolMessage(tool_result) ==
            [role |-> "tool",
             content |-> [json |-> [result |-> tool_result.result,
                                    error |-> tool_result.error]],
             tool_call_id |-> tool_result.tool_call_id]
        OtherMessage(content_list) ==
            [role |-> m.role,
             content |-> IF Len(content_list) = 1 /\ content_list[1].type = "text"
                         THEN [text |-> content_list[1].text]
                         ELSE [parts |-> content_list]]
    IN  IF m.role = "tool"
        THEN ToolMessage(ToolResultsOf(m)[1])
        ELSE OtherMessage(Flatten([i \in 1..Len(m.content) |->
                                      OpenAIContent(m.content[i])]))

\* model_name.startswith("o1") or ("o3") or ("o4") or ("gpt-5"), read off the
\* first atom of the name.
UsesCompletionTokens(name) ==
    /\ name # <<>>
    /\ name[1] \in {"o1", "o1-preview", "o1-mini", "o1-2024-12-17", "o3",
                    "o4-mini", "gpt-5", "gpt-5.1", "gpt-5.1-chat-latest",
                    "gpt-5-mini", "gpt-5-nano"}

\* The keyword arguments of client.chat.completions.create.
OpenAIArguments(a) ==
    LET Arguments(openai_messages, openai_tools) ==
            IF UsesCompletionTokens(a.model_name)
            THEN [model |-> a.model_name, messages |-> openai_messages,
                  max_completion_tokens |-> a.max_tokens,
                  tools |-> openai_tools]
            ELSE [model |-> a.model_name, messages |-> openai_messages,
                  max_tokens |-> a.max_tokens, temperature |-> a.temperature,
                  tools |-> openai_tools]
        Converted(msgs) ==
            Arguments([i \in 1..Len(msgs) |-> OpenAIMessage(msgs[i])],
                      OpenAITools(a.tools))
    IN  Converted(WithSystemMessage(a.system_prompt, a.messages))

\* The tool calls of a reply; json.loads raises on arguments that are no JSON.
OpenAIToolCalls(calls) ==
    [i \in 1..Len(calls) |->
        ToolCall(calls[i].name, calls[i].arguments, Some(calls[i].id))]

\* GPTWrapper._messages (DeepSeekWrapper and PerplexityWrapper inherit it),
\* given what the backend does: it raises, or it replies with one choice.
GPT_messages(a, reply) ==
    LET Create(msgs, arguments) ==
            IF \E i \in 1..Len(msgs) : OpenAIMessageRaises(msgs[i])
            THEN Raised(<<"StopIteration">>, <<>>)
            ELSE IF reply.kind = "error"
            THEN Raised(<<"openai API error">>, <<arguments>>)
            ELSE IF reply.tool_calls # <<>>
            THEN IF \E i \in 1..Len(reply.tool_calls) :
                        ~reply.tool_calls[i].valid_json
                 THEN Raised(<<"JSONDecodeError">>, <<arguments>>)
                 ELSE Returned(AIResponse(IF TruthyText(reply.content)
                                          THEN reply.content ELSE Some(<<>>),
                                          Some(OpenAIToolCalls(reply.tool_calls)),
                                          reply.reasoning_content, None),
                               <<arguments>>)
            ELSE Returned(AIResponse(reply.content, None,
                                     reply.reasoning_content, None),
                          <<arguments>>)
    IN  Create(WithSystemMessage(a.system_prompt, a.messages), OpenAIArguments(a))

\* ----------------------------------------------------- wrappers/google.py

\* The parts of one message: text and images are converted, the rest is
\* left out.
GeminiPart(c) ==
    CASE c.type = "text" -> <<[text |-> c.text[1]]>>
      [] c.type = "image" ->
            <<[data |-> c.image[1]["data"], mime_type |-> c.image[1]["media_type"]]>>
      [] OTHER -> <<>>

GeminiParts(m) == Flatten([i \in 1..Len(m.content) |-> GeminiPart(m.content[i])])

\* The contents list: a message of another role, or without parts, is skipped.
RECURSIVE GeminiContents(_)
GeminiContents(messages) ==
    LET Content(m, parts) ==
            IF m.role \notin {"user", "assistant"} \/ parts = <<>>
            THEN <<>>
            ELSE <<[role |-> IF m.role = "user" THEN "user" ELSE "model",
                    parts |-> parts]>>
    IN  IF messages = <<>> THEN <<>>
        ELSE Content(Head(messages), GeminiParts(Head(messages)))
             \o GeminiContents(Tail(messages))

\* The keyword arguments of client.models.generate_content: the model is the
\* adapter's own self.model_name, not the model_name argument.
GeminiArguments(self, a) ==
    [model |-> self.model_name[1],
     contents |-> GeminiContents(a.messages),
     config |-> [max_output_tokens |-> a.max_tokens,
                 temperature |-> a.temperature,
                 system_instruction |-> IF a.system_prompt # <<>>
                                        THEN Some(a.system_prompt) ELSE None]]

\* An error text that never says why the prompt was blocked.
NoCandidatesDetailWithoutReason(reply) ==
    <<"No candidates returned and no prompt feedback available.">>

\* The error text for a reply without candidates.
NoCandidatesDetail(reply) ==
    IF reply.prompt_feedback # None
    THEN IF Truthy(reply.prompt_feedback[1].block_reason)
         THEN <<"Prompt was blocked due to ", reply.prompt_feedback[1].block_reason[1],
                ". Safety ratings: ", reply.prompt_feedback[1].safety_ratings>>
         ELSE <<"No candidates returned. Safety ratings: ",
                reply.prompt_feedback[1].safety_ratings>>
    ELSE <<"No candidates returned and no prompt feedback available.">>

\* The fallback when response.text raises: the first part's text, if any.
GeminiFallback(candidate, response_error, requests) ==
    LET Fallback(err) ==
            IF candidate.parts # <<>> /\ TruthyText(candidate.parts[1].text)
            THEN Returned(AIResponse(candidate.parts[1].text, None, None, Some(err)),
                          requests)
            ELSE Raised(<<"Could not extract text from response">>, requests)
    IN  Fallback((IF response_error # None
                  THEN response_error[1] \o <<" + ">> ELSE <<>>)
                 \o <<"Response does not have a .text property">>)

\* GeminiWrapper._messages, given what the backend does: it raises, or it
\* replies with candidates, prompt feedback and a .text property.
Gemini_messages(self, a, reply) ==
    LET Text(candidate, response_error, requests) ==
            IF reply.text_raises
            THEN GeminiFallback(candidate, response_error, requests)
            ELSE Returned(AIResponse(reply.text, None, None, response_error),
                          requests)
        Candidate(candidate, finish_reason, requests) ==
            IF finish_reason = Some("SAFETY")
            THEN Raised(<<"Response was blocked due to safety concerns. Safety ratings: ",
                          candidate.safety_ratings>>, requests)
            ELSE IF finish_reason = Some("RECITATION")
            THEN Raised(<<"Response was blocked due to recitation concerns. The output may resemble training data.">>,
                        requests)
            ELSE Text(candidate,
                      IF finish_reason \in {Some("MAX_TOKENS"), Some("OTHER")}
                      THEN Some(<<finish_reason[1]>>) ELSE None,
                      requests)
        Generate(requests) ==
            IF reply.kind = "error"
            THEN Raised(<<"google API error">>, requests)
            ELSE IF reply.candidates = <<>>
            THEN Raised(NoCandidatesDetail(reply), requests)
            ELSE Candidate(reply.candidates[1], reply.candidates[1].finish_reason,
                           requests)
    IN  Generate(<<GeminiArguments(self, a)>>)

\* ------------------------------------------- wrappers/base.py, continued

\* The adapter's _messages, by its class.
_messages(self, a, reply) ==
    CASE self.class = "MockWrapper" -> Mock_messages(a)
      [] self.class = "ClaudeWrapper" -> Claude_messages(a, reply)
      [] self.class \in {"GPTWrapper", "DeepSeekWrapper", "PerplexityWrapper"} ->
            GPT_messages(a, reply)
      [] self.class = "GeminiWrapper" -> Gemini_messages(self, a, reply)

\* Rows logged with the output estimate first.
TokenRowsOutputFirst(a, response, n_in) ==
    <<log_token_use(a.model_name, count_tokens_output(response.content), FALSE),
      log_token_use(a.model_name, n_in, TRUE)>>

\* The rows AIWrapper.messages logs once _messages has returned.
TokenRows(a, response, n_in) ==
    <<log_token_use(a.model_name, n_in, TRUE),
      log_token_use(a.model_name, count_tokens_output(response.content), FALSE)>>

\* AIWrapper.messages: _messages, then the two log_token_use calls.  `rows`
\* are the rows appended to the sink.
AIWrapper_messages(self, a, reply) ==
    LET Logged(r, n_in) ==
            IF ~r.ok
            THEN [ok |-> FALSE, response |-> r.response, error |-> r.error,
                  requests |-> r.requests, rows |-> <<>>]
            ELSE IF n_in = None
            THEN [ok |-> FALSE, response |-> AIResponse(None, None, None, None),
                  error |-> <<"cannot identify image file">>,
                  requests |-> r.requests, rows |-> <<>>]
            ELSE [ok |-> TRUE, response |-> r.response, error |-> <<>>,
                  requests |-> r.requests,
                  rows |-> TokenRows(a, r.response, n_in[1])]
    IN  Logged(_messages(self, a, reply),
               count_tokens_input(a.messages, a.system_prompt))

\* ------------------------------------------------------------- client.py

DEFAULT_MAX_TOKENS == 4096

DEFAULT_TEMPERATURE == "0.0"

\* get_model(identifier): the canonical model name the identifier resolves
\* to; it raises when the identifier does not resolve.
get_model(identifier) ==
    LET Name(r) == [ok |-> r.ok, name |-> r.model_name]
    IN  Name(resolve_model_info(identifier))

\* The providers that serve a canonical model name.
ProvidersOf(name) ==
    {_MODEL_ALIASES[a][1] : a \in {b \in DOMAIN _MODEL_ALIASES :
                                      <<_MODEL_ALIASES[b][3]>> = name}}

\* get_client(model_name, keys): the adapter of the provider that serves the
\* canonical model name, with that provider's credential.
get_client(name, keys, env) ==
    LET Client(providers) ==
            IF providers = {}
            THEN WrapperError(<<"Unknown model: ">> \o name)
            ELSE WrapperFor(CHOOSE p \in providers : TRUE, name, keys, env)
    IN  Client(ProvidersOf(name))

\* What the image loader does with a path: validate_image and encode_image
\* return the base64 data and the MIME type, or one of them raises.
\* corrupt.png starts with the PNG signature, which is all imghdr looks at,
\* and is cut off after it.
ImageLoad(path) ==
    CASE path = "photo.png" ->
            [raises |-> "", data |-> "png-64x48", media_type |-> "image/png"]
      [] path = "icon.png" ->
            [raises |-> "", data |-> "png-30x25", media_type |-> "image/png"]
      [] path = "corrupt.png" ->
            [raises |-> "", data |-> "png-corrupt", media_type |-> "image/png"]
      [] path = "missing.png" ->
            [raises |-> "FileNotFoundError", data |-> "", media_type |-> ""]
      [] path = "notes.txt" ->
            [raises |-> "ValueError", data |-> "", media_type |-> ""]
      [] path = "locked.png" ->
            [raises |-> "PermissionError", data |-> "", media_type |-> ""]

\* The image block built from a loaded attachment.
ImageBlock(loaded) ==
    ContentFields("image", None, None, None,
                  Some([k \in {"type", "media_type", "data"} |->
                          CASE k = "type" -> "base64"
                            [] k = "media_type" -> loaded.media_type
                            [] k = "data" -> loaded.data]))

\* The loop of _prepare_messages over image_paths: FileNotFoundError and
\* ValueError are caught and the attachment is left out; any other exception
\* leaves the loop and the call.
RECURSIVE PrepareImages(_, _)
PrepareImages(paths, content) ==
    IF paths = <<>>
    THEN [ok |-> TRUE, content |-> content]
    ELSE LET loaded == ImageLoad(Head(paths))
         IN  IF loaded.raises = ""
             THEN PrepareImages(Tail(paths), Append(content, ImageBlock(loaded)))
             ELSE IF loaded.raises \in {"FileNotFoundError", "ValueError"}
             THEN PrepareImages(Tail(paths), content)
             ELSE [ok |-> FALSE, content |-> <<>>]

\* AI._prepare_messages(message, image_paths): message is a str or a Message.
_prepare_messages(message, image_paths) ==
    IF message.kind = "Message"
    THEN [ok |-> TRUE, messages |-> <<message.message>>]
    ELSE LET imgs == PrepareImages(IF image_paths = None THEN <<>> ELSE image_paths[1],
                                   <<>>)
         IN  IF ~imgs.ok
             THEN [ok |-> FALSE, messages |-> <<>>]
             ELSE [ok |-> TRUE,
                   messages |-> <<Message("user",
                                          Append(imgs.content, TextBlock(message.text)))>>]

\* The client object: the fields AI.__init__ sets.
AIObject(name, prompt, tool_list, dbg, wrapper) ==
    [model_name |-> name, system_prompt |-> prompt, tools |-> tool_list,
     debug |-> dbg, client |-> wrapper]

\* A merge in which the call's tools replace the constructor's.
MergeToolsReplace(self_tools, call_tools) ==
    IF call_tools = None THEN self_tools ELSE call_tools[1]

\* `tools_to_use = self.tools + (tools or [])`
MergeTools(self_tools, call_tools) ==
    self_tools \o (IF call_tools = None THEN <<>> ELSE call_tools[1])

\* A choice of model that keeps to an override given once, whatever the call.
EffectiveModelForced(self, model_override) ==
    [ok |-> TRUE, name |-> <<"gemini-2.5-flash">>]

\* `model_name = get_model(model_override) or self.model_name` under
\* `if model_override:`, else self.model_name.
EffectiveModel(self, model_override) ==
    LET Override(m) ==
            [ok |-> m.ok, name |-> IF m.name # <<>> THEN m.name ELSE self.model_name]
    IN  IF model_override # None /\ model_override[1] # <<>>
        THEN Override(get_model(model_override[1]))
        ELSE [ok |-> TRUE, name |-> self.model_name]

\* `client = self.client` on both branches of `if model_override:`.
EffectiveClient(self, model_override) == self.client

\* `system_prompt = system_prompt or self.system_prompt`
EffectivePrompt(self, prompt) ==
    IF TruthyText(prompt) THEN prompt[1] ELSE self.system_prompt

\* The outcome of a client call: whether it returned, the response, the
\* arguments given to the adapter (None when the adapter was not reached),
\* the adapter used, the requests sent to the backend and the rows logged.
CallOutcome(ok, response, sent, adapter, requests, rows) ==
    [ok |-> ok, response |-> response, sent |-> sent, adapter |-> adapter,
     requests |-> requests, rows |-> rows]

\* AI.messages(messages, system_prompt, model_override, max_tokens,
\* temperature, debug, tools, thinking, thinking_budget_tokens).
AI_messages(self, messages, prompt, model_override, max_tokens, temperature, dbg, call_tools, thinking, thinking_budget_tokens, reply) ==
    LET Outcome(adapter, a, r) ==
            IF ~r.ok
            THEN CallOutcome(FALSE, r.response, Some(a), adapter, r.requests, r.rows)
            ELSE IF (dbg \/ self.debug) /\ r.response.content = None
            THEN CallOutcome(FALSE, r.response, Some(a), adapter, r.requests, r.rows)
            ELSE CallOutcome(TRUE, r.response, Some(a), adapter, r.requests, r.rows)
        Call(adapter, a) == Outcome(adapter, a, AIWrapper_messages(adapter, a, reply))
        Send(model, adapter) ==
            IF ~model.ok
            THEN CallOutcome(FALSE, AIResponse(None, None, None, None), None,
                             adapter, <<>>, <<>>)
            ELSE Call(adapter,
                      AdapterArgs(model.name, messages,
                                  EffectivePrompt(self, prompt), max_tokens,
                                  temperature, MergeTools(self.tools, call_tools),
                                  thinking, thinking_budget_tokens))
    IN  Send(EffectiveModel(self, model_override),
             EffectiveClient(self, model_override))

\* AI.message(message, ..., image_paths, tools, ...)
AI_message(self, message, prompt, model_override, max_tokens, temperature, dbg, image_paths, call_tools, thinking, thinking_budget_tokens, reply) ==
    LET Send(prepared) ==
            IF ~prepared.ok
            THEN CallOutcome(FALSE, AIResponse(None, None, None, None), None,
                             self.client, <<>>, <<>>)
            ELSE AI_messages(self, prepared.messages, prompt, model_override,
                             max_tokens, temperature, dbg, call_tools, thinking,
                             thinking_budget_tokens, reply)
    IN  Send(_prepare_messages(message, image_paths))

\* A turn that sends the new message without the transcript.
SentMessagesNewOnly(hist, prepared) == prepared

\* `messages = self._history + self._prepare_messages(message, image_paths)`
SentMessages(hist, prepared) == hist \o prepared

\* An assistant block that carries the reasoning trace in front of the text.
AssistantContentWithReasoning(response) ==
    MessageContent("text",
                   IF response.content = None THEN None
                   ELSE Some((IF response.reasoning = None THEN <<>>
                              ELSE response.reasoning[1]) \o response.content[1]),
                   None, None, None)

\* `MessageContent(type="text", text=response.content)`
AssistantContent(response) ==
    MessageContent("text", response.content, None, None, None)

\* A store that keeps the assistant's message only.
StoredHistoryReplyOnly(messages, assistant_content) ==
    <<Message("assistant", assistant_content)>>

\* A store that puts the sent messages back without the assistant's message.
StoredHistoryWithoutReply(messages, assistant_content) == messages

\* A store that keeps the latest exchange only.
StoredHistoryLatestExchange(messages, assistant_content) ==
    <<messages[Len(messages)], Message("assistant", assistant_content)>>

\* `self._history = messages + [Message(role="assistant", content=...)]`
StoredHistory(messages, assistant_content) ==
    messages \o <<Message("assistant", assistant_content)>>

\* `self._last_reasoning = response.reasoning if response.reasoning else None`
StoredReasoning(response) ==
    IF TruthyText(response.reasoning) THEN response.reasoning ELSE None

\* A conversation that stores the messages it sent before it calls the
\* backend, so that a turn that raises leaves the user message behind.
AI_conversationStoringFirst(self, hist, reasoning, message, prompt, model_override, max_tokens, temperature, dbg, image_paths, thinking, thinking_budget_tokens, reply) ==
    LET Store(messages, out, assistant) ==
            IF ~out.ok
            THEN [outcome |-> out, history |-> messages, last_reasoning |-> None]
            ELSE IF ~assistant.ok
            THEN [outcome |-> [out EXCEPT !.ok = FALSE],
                  history |-> messages, last_reasoning |-> None]
            ELSE [outcome |-> out,
                  history |-> StoredHistory(messages, <<assistant.block>>),
                  last_reasoning |-> StoredReasoning(out.response)]
        Respond(messages, out) ==
            Store(messages, out, AssistantContent(out.response))
        Send(messages) ==
            Respond(messages,
                    AI_messages(self, messages, prompt, model_override, max_tokens,
                                temperature, dbg, None, thinking,
                                thinking_budget_tokens, reply))
        Turn(prepared) ==
            IF ~prepared.ok
            THEN [outcome |-> CallOutcome(FALSE, AIResponse(None, None, None, None),
                                          None, self.client, <<>>, <<>>),
                  history |-> hist, last_reasoning |-> reasoning]
            ELSE Send(SentMessages(hist, prepared.messages))
    IN  Turn(_prepare_messages(message, image_paths))

\* AI.conversation(message, ..., image_paths, thinking, ...) on a client whose
\* transcript is hist and latest reasoning is reasoning: the outcome of the
\* call and the two fields after it.
AI_conversation(self, hist, reasoning, message, prompt, model_override, max_tokens, temperature, dbg, image_paths, thinking, thinking_budget_tokens, reply) ==
    LET Store(messages, out, assistant) ==
            IF ~out.ok
            THEN [outcome |-> out, history |-> hist, last_reasoning |-> reasoning]
            ELSE IF ~assistant.ok
            THEN [outcome |-> [out EXCEPT !.ok = FALSE],
                  history |-> hist, last_reasoning |-> reasoning]
            ELSE [outcome |-> out,
                  history |-> StoredHistory(messages, <<assistant.block>>),
                  last_reasoning |-> StoredReasoning(out.response)]
        Respond(messages, out) ==
            Store(messages, out, AssistantContent(out.response))
        Send(messages) ==
            Respond(messages,
                    AI_messages(self, messages, prompt, model_override, max_tokens,
                                temperature, dbg, None, thinking,
                                thinking_budget_tokens, reply))
        Turn(prepared) ==
            IF ~prepared.ok
            THEN [outcome |-> CallOutcome(FALSE, AIResponse(None, None, None, None),
                                          None, self.client, <<>>, <<>>),
                  history |-> hist, last_reasoning |-> reasoning]
            ELSE Send(SentMessages(hist, prepared.messages))
    IN  Turn(_prepare_messages(message, image_paths))

\* --------------------------------------------- checking the pure functions

\* The client's variables while a pure function is under check: no client.
ClientIdle ==
    /\ model_name = <<>>
    /\ system_prompt = <<>>
    /\ tools = <<>>
    /\ debug = FALSE
    /\ client = <<>>
    /\ history = <<>>
    /\ last_reasoning = None
    /\ tokenLog = <<>>
    /\ lastCall = <<>>
    /\ turnInputs = <<>>
    /\ nCalls = 0
    /\ nRequests = 0
    /\ threads = <<>>
    /\ overlapped = FALSE

\* The longest identifier, in atoms, that is not an alias.
MaxIdLen == 3

IdAtoms == {"anthropic", "mock", "acme", "m1", ":"}

ResolveIds ==
    {<<a>> : a \in DOMAIN _MODEL_ALIASES} \cup SeqsUpTo(IdAtoms, MaxIdLen)

InitResolve ==
    /\ fnIn \in [op : {"resolve_model_info"}, id : ResolveIds]
    /\ fnOut = None
    /\ ClientIdle

ApplyResolve ==
    /\ fnIn.op = "resolve_model_info"
    /\ fnOut = None
    /\ fnOut' = Some(resolve_model_info(fnIn.id))
    /\ UNCHANGED <<fnIn, clientVars>>

SpecResolve == InitResolve /\ [][ApplyResolve]_vars

\* C7: resolve_model_info returns the alias table's pair for a known alias,
\* (p, m) for 'p:m' with p a supported provider and m non-empty, split at the
\* first colon, and fails in every other case.
ResolveIsAliasOrPair ==
    fnOut # None =>
        LET id == fnIn.id
            r == fnOut[1]
            isAlias == Len(id) = 1 /\ id[1] \in DOMAIN _MODEL_ALIASES
            isPair == /\ Len(id) >= 3
                      /\ id[1] \in _SUPPORTED_PROVIDERS
                      /\ id[2] = ":"
        IN  /\ isAlias =>
                /\ r.ok
                /\ r.provider = _MODEL_ALIASES[id[1]][1]
                /\ r.model_name = <<_MODEL_ALIASES[id[1]][3]>>
            /\ (~isAlias /\ isPair) =>
                /\ r.ok
                /\ r.provider = id[1]
                /\ r.model_name = SubSeq(id, 3, Len(id))
            /\ (~isAlias /\ ~isPair) =>
                /\ ~r.ok
                /\ r.error # <<>>

\* A 'p:m' identifier whose model name itself holds a colon has been resolved.
ResolvedPairWitness ==
    /\ fnOut # None
    /\ fnIn.op = "resolve_model_info"
    /\ fnIn.id = <<"mock", ":", "m1">>
    /\ fnOut[1].ok

MaxKeysSet == 2

WrapperIds ==
    {<<"haiku">>, <<"gemini1.5">>, <<"gpt4o">>, <<"deepseek-chat">>,
     <<"sonar">>, <<"mock">>, <<"google", ":", "m1">>, <<"acme", ":", "m1">>,
     <<"nope">>}

KeyArgs == {KeyArgOf(p) : p \in KeyedProviders}

EnvVars == {EnvVarOf(p) : p \in KeyedProviders}

\* A slot is unset (None), set to the empty string, or set to a key that
\* carries the slot's own name.
SlotValue(slot, code) ==
    CASE code = 0 -> None
      [] code = 1 -> Some("")
      [] code = 2 -> Some(slot)

\* The settings of the key arguments and environment variables in which at
\* most MaxKeysSet slots are set.
SlotCodes ==
    {c \in [KeyArgs \cup EnvVars -> 0..2] :
        Cardinality({s \in KeyArgs \cup EnvVars : c[s] # 0}) <= MaxKeysSet}

KeysOf(c) == [s \in KeyArgs |-> SlotValue(s, c[s])]

EnvOf(c) == [s \in EnvVars |-> SlotValue(s, c[s])]

InitWrapper ==
    /\ \E id \in WrapperIds, c \in SlotCodes :
          fnIn = [op |-> "get_wrapper", id |-> id, keys |-> KeysOf(c),
                  env |-> EnvOf(c)]
    /\ fnOut = None
    /\ ClientIdle

ApplyWrapper ==
    /\ fnIn.op = "get_wrapper"
    /\ fnOut = None
    /\ fnOut' = Some(get_wrapper(fnIn.id, fnIn.keys, fnIn.env))
    /\ UNCHANGED <<fnIn, clientVars>>

SpecWrapper == InitWrapper /\ [][ApplyWrapper]_vars

\* A credential is given when it is neither None nor the empty string.
Given(opt) == opt # None /\ opt # Some("")

\* C8: for a provider that needs a credential, get_wrapper uses the key
\* argument when one is given, otherwise the provider's environment variable,
\* and with neither it fails, naming the provider and the variable, and
\* returns no adapter.
WrapperCredentialOrder ==
    (fnOut # None /\ resolve_model_info(fnIn.id).ok
        /\ resolve_model_info(fnIn.id).provider \in KeyedProviders) =>
        LET p == resolve_model_info(fnIn.id).provider
            arg == fnIn.keys[KeyArgOf(p)]
            var == fnIn.env[EnvVarOf(p)]
            w == fnOut[1]
        IN  /\ Given(arg) =>
                w.ok /\ w.api_key = arg /\ w.class = WrapperClassOf(p)
            /\ (~Given(arg) /\ Given(var)) =>
                w.ok /\ w.api_key = var /\ w.class = WrapperClassOf(p)
            /\ (~Given(arg) /\ ~Given(var)) =>
                /\ ~w.ok
                /\ w.class = ""
                /\ ProviderTitle(p) \in Range(w.error)
                /\ EnvVarOf(p) \in Range(w.error)

\* Both the key argument and the environment variable of the resolved
\* provider were set, and an adapter came back.
WrapperBothKeysWitness ==
    /\ fnOut # None
    /\ fnIn.op = "get_wrapper"
    /\ fnIn.id = <<"gpt4o">>
    /\ Given(fnIn.keys["openai_api_key"])
    /\ Given(fnIn.env["OPENAI_API_KEY"])
    /\ fnOut[1].ok

WrapperBuilt == fnOut # None /\ fnIn.op = "get_wrapper"

\* Some key argument or environment variable of a provider other than p is
\* set.
OtherKeyGiven(p) ==
    \/ \E q \in KeyedProviders \ {p} : Given(fnIn.keys[KeyArgOf(q)])
    \/ \E q \in KeyedProviders \ {p} : Given(fnIn.env[EnvVarOf(q)])

\* C29: get_wrapper resolves the identifier before it looks at a credential:
\* an identifier that does not resolve fails with the resolution error
\* whatever credentials are present; for a resolved provider only its own key
\* argument and environment variable count, the keys of other providers never
\* standing in for them; the mock provider yields an adapter that carries no
\* credential.
ResolutionBeforeCredentials ==
    WrapperBuilt =>
        LET r == resolve_model_info(fnIn.id)
            w == fnOut[1]
        IN  /\ ~r.ok =>
                /\ ~w.ok
                /\ w.error = <<"Failed to resolve model identifier '">>
                                \o fnIn.id \o <<"': ">> \o r.error
            /\ (r.ok /\ r.provider \in KeyedProviders) =>
                /\ w.ok <=> (Given(fnIn.keys[KeyArgOf(r.provider)])
                                \/ Given(fnIn.env[EnvVarOf(r.provider)]))
                /\ w.ok => w.api_key \in {fnIn.keys[KeyArgOf(r.provider)],
                                          fnIn.env[EnvVarOf(r.provider)]}
                /\ ~w.ok => w.error = MissingKeyMessage(r.provider)
            /\ (r.ok /\ r.provider = "mock") =>
                /\ w.ok
                /\ w.class = "MockWrapper"
                /\ w.api_key = None

\* An Anthropic alias was asked for with only OpenAI's key and variable set,
\* and no adapter came back.
OtherProvidersKeyWitness ==
    /\ WrapperBuilt
    /\ fnIn.id = <<"haiku">>
    /\ Given(fnIn.keys["openai_api_key"])
    /\ Given(fnIn.env["OPENAI_API_KEY"])
    /\ ~fnOut[1].ok

\* An identifier that does not resolve was asked for with keys present.
UnresolvedWithKeysWitness ==
    /\ WrapperBuilt
    /\ fnIn.id = <<"nope">>
    /\ OtherKeyGiven("mock")
    /\ ~fnOut[1].ok

\* The mock adapter was built with keys present.
MockWithKeysWitness ==
    /\ WrapperBuilt
    /\ fnIn.id = <<"mock">>
    /\ OtherKeyGiven("mock")
    /\ fnOut[1].ok

\* The most parameters a registered callable declares.
MaxParams == 2

ParamNames == {"city", "units", "years"}

UnitsLiteral ==
    AnnLiteral(<<[type |-> "str", value |-> "celsius", digits |-> "celsius"],
                 [type |-> "str", value |-> "fahrenheit", digits |-> "fahrenheit"]>>)

ToolAnnotations == {None, Some(AnnStr), Some(AnnInt), Some(UnitsLiteral)}

ParamDecls == [name : ParamNames, annotation : ToolAnnotations, has_default : BOOLEAN]

\* The parameter lists of at most MaxParams distinctly named parameters.
ParamLists ==
    {ps \in SeqsUpTo(ParamDecls, MaxParams) :
        \A i, j \in 1..Len(ps) : i # j => ps[i].name # ps[j].name}

\* The keyword arguments of tool(): a description for each name of a set.
DescriptionsFor(S) == [n \in S |-> <<"about ", n>>]

InitTool ==
    /\ \E ps \in ParamLists, S \in SUBSET ParamNames, safe \in BOOLEAN :
          fnIn = [op |-> "tool", description |-> <<"a tool">>, safe |-> safe,
                  parameter_descriptions |-> DescriptionsFor(S),
                  func |-> [name |-> "get_weather", params |-> ps]]
    /\ fnOut = None
    /\ ClientIdle

ApplyTool ==
    /\ fnIn.op = "tool"
    /\ fnOut = None
    /\ fnOut' = Some(tool_decorator(fnIn.description, fnIn.safe,
                                    fnIn.parameter_descriptions, fnIn.func))
    /\ UNCHANGED <<fnIn, clientVars>>

SpecTool == InitTool /\ [][ApplyTool]_vars

AllDescribed(f, descs) ==
    \A i \in 1..Len(f.params) : f.params[i].name \in DOMAIN descs

\* C10: when every declared parameter has a description, construction
\* succeeds, the descriptor's parameters are the declared parameters in
\* declaration order, and required is true exactly for the parameters that
\* have no default value.
DescriptorMatchesSignature ==
    (fnOut # None /\ AllDescribed(fnIn.func, fnIn.parameter_descriptions)) =>
        LET decl == fnIn.func.params
            r == fnOut[1]
        IN  /\ r.ok
            /\ Len(r.tool.parameters) = Len(decl)
            /\ \A i \in 1..Len(decl) :
                  /\ r.tool.parameters[i].name = decl[i].name
                  /\ r.tool.parameters[i].param.required = ~decl[i].has_default
                  /\ r.tool.parameters[i].param.description =
                        fnIn.parameter_descriptions[decl[i].name]

\* A callable with a required and a defaulted parameter, both described, has
\* been registered.
DescriptorBuiltWitness ==
    /\ fnOut # None
    /\ fnIn.op = "tool"
    /\ Len(fnIn.func.params) = 2
    /\ ~fnIn.func.params[1].has_default
    /\ fnIn.func.params[2].has_default
    /\ AllDescribed(fnIn.func, fnIn.parameter_descriptions)
    /\ fnOut[1].ok

\* The positions of the declared parameters that have no description.
Undescribed(f, descs) ==
    {i \in 1..Len(f.params) : f.params[i].name \notin DOMAIN descs}

FirstUndescribed(f, descs) ==
    CHOOSE i \in Undescribed(f, descs) : \A j \in Undescribed(f, descs) : i <= j

MaxLiterals == 3

\* The arguments Literal[...] can hold: strings, and the integer 1 whose
\* str() is "1".
LiteralArgs ==
    {[type |-> "str", value |-> "celsius", digits |-> "celsius"],
     [type |-> "str", value |-> "fahrenheit", digits |-> "fahrenheit"],
     [type |-> "str", value |-> "kelvin", digits |-> "kelvin"],
     [type |-> "int", value |-> "int 1", digits |-> "1"]}

\* The members of an Enum class: TemperatureUnit.CELSIUS = "C", ...
EnumMembers ==
    {[name |-> "CELSIUS", value |-> "C"],
     [name |-> "FAHRENHEIT", value |-> "F"],
     [name |-> "KELVIN", value |-> "K"]}

\* get_args of a Literal and the members of an Enum never repeat an entry.
Distinct(seq) == \A i, j \in 1..Len(seq) : i # j => seq[i] # seq[j]

TypeAnnotations ==
    {None, Some(AnnStr), Some(AnnInt), Some(AnnFloat), Some(AnnBool),
     Some(AnnOther)}
    \cup {Some(AnnLiteral(v)) :
             v \in {w \in SeqsUpTo(LiteralArgs, MaxLiterals) :
                        w # <<>> /\ Distinct(w)}}
    \cup {Some(AnnEnum(m)) :
             m \in {w \in SeqsUpTo(EnumMembers, MaxLiterals) : Distinct(w)}}

\* A callable of one described parameter, of every declared type.
InitType ==
    /\ \E a \in TypeAnnotations, d \in BOOLEAN :
          fnIn = [op |-> "tool", description |-> <<"a tool">>, safe |-> TRUE,
                  parameter_descriptions |-> DescriptionsFor({"units"}),
                  func |-> [name |-> "get_weather",
                            params |-> <<[name |-> "units", annotation |-> a,
                                          has_default |-> d]>>]]
    /\ fnOut = None
    /\ ClientIdle

SpecType == InitType /\ [][ApplyTool]_vars

\* The declared type of the one parameter, and what the descriptor says of it.
Declared == fnIn.func.params[1].annotation

Described == fnOut[1].tool.parameters[1].param

AllStrings(args) == \A i \in 1..Len(args) : args[i].type = "str"

IsEnum == Declared # None /\ Declared[1].kind = "Enum"

\* C13 as the code has it: for a parameter declared with an Enum class the
\* type is string and the enum lists the members' names, one per member in
\* declaration order.
EnumListsMemberNames ==
    (fnOut # None /\ fnIn.op = "tool" /\ Len(fnIn.func.params) = 1
        /\ fnOut[1].ok /\ IsEnum) =>
        /\ Described.type = "string"
        /\ Described.enum =
              Some([i \in 1..Len(Declared[1].args) |-> Declared[1].args[i].name])

\* C13 as stated: the enum lists the members' values.
EnumListsMemberValues ==
    (fnOut # None /\ fnIn.op = "tool" /\ Len(fnIn.func.params) = 1
        /\ fnOut[1].ok /\ IsEnum) =>
        /\ Described.type = "string"
        /\ Described.enum =
              Some([i \in 1..Len(Declared[1].args) |-> Declared[1].args[i].value])

\* A parameter declared with an Enum of FAHRENHEIT = "F", CELSIUS = "C" has
\* been described.
EnumDescribedWitness ==
    /\ fnOut # None
    /\ fnIn.op = "tool"
    /\ Len(fnIn.func.params) = 1
    /\ IsEnum
    /\ Len(Declared[1].args) = 2
    /\ Declared[1].args[1].name = "FAHRENHEIT"
    /\ Declared[1].args[2].value = "C"
    /\ fnOut[1].ok

\* The tags a caller can pass: the four of the Literal, and one outside it
\* (the annotation is not enforced when the dataclass is constructed).
ContentTags == {"text", "image", "tool_use", "tool_result", "audio"}

ImageKeys == {"type", "media_type", "data"}

\* The image payloads: absent, or a dict holding some of the three keys.
ImagePayloads ==
    {None} \cup {Some([k \in K |-> "x"]) : K \in SUBSET ImageKeys}

TextPayloads == {None, Some(<<"a">>)}

ToolCallPayloads == {None, Some(ToolCall("get_weather", <<>>, Some("call1")))}

ToolResultPayloads ==
    {None, Some(ToolResult("get_weather", Some("sunny"), Some("call1"), None))}

InitContent ==
    /\ \E type \in ContentTags, text \in TextPayloads,
          tool_call \in ToolCallPayloads, tool_result \in ToolResultPayloads,
          image \in ImagePayloads :
          fnIn = [op |-> "content", type |-> type, text |-> text,
                  tool_call |-> tool_call, tool_result |-> tool_result,
                  image |-> image]
    /\ fnOut = None
    /\ ClientIdle

ApplyContent ==
    /\ fnIn.op = "content"
    /\ fnOut = None
    /\ fnOut' = Some(MessageContent(fnIn.type, fnIn.text, fnIn.tool_call,
                                    fnIn.tool_result, fnIn.image))
    /\ UNCHANGED <<fnIn, clientVars>>

SpecContent == InitContent /\ [][ApplyContent]_vars

Constructed == fnOut # None /\ fnIn.op = "content"

PayloadsOf(c) ==
    {f \in {"text", "image", "tool_use", "tool_result"} :
        CASE f = "text" -> c.text # None
          [] f = "image" -> c.image # None
          [] f = "tool_use" -> c.tool_call # None
          [] f = "tool_result" -> c.tool_result # None}

\* C15: every constructed block has one of the four tags and carries the
\* payload of its tag and no other.
ConstructedHasExactlyItsPayload ==
    (Constructed /\ fnOut[1].ok) =>
        /\ fnOut[1].block.type \in {"text", "image", "tool_use", "tool_result"}
        /\ PayloadsOf(fnOut[1].block) = {fnOut[1].block.type}

\* The most attachments of one message.
MaxPaths == 3

\* The files a caller can attach.
AttachmentPaths ==
    {"photo.png", "icon.png", "corrupt.png", "missing.png", "notes.txt",
     "locked.png"}

PrepareTexts == {<<>>, <<"a">>}

InitPrepare ==
    /\ \E text \in PrepareTexts,
          image_paths \in {None} \cup
                          {Some(ps) : ps \in SeqsUpTo(AttachmentPaths, MaxPaths)} :
          fnIn = [op |-> "prepare", text |-> text, image_paths |-> image_paths]
    /\ fnOut = None
    /\ ClientIdle

ApplyPrepare ==
    /\ fnIn.op = "prepare"
    /\ fnOut = None
    /\ fnOut' = Some(_prepare_messages([kind |-> "str", text |-> fnIn.text],
                                       fnIn.image_paths))
    /\ UNCHANGED <<fnIn, clientVars>>

SpecPrepare == InitPrepare /\ [][ApplyPrepare]_vars

Prepared == fnOut # None /\ fnIn.op = "prepare"

\* The attachments given to the call, none when the list is absent.
GivenPaths == IF fnIn.image_paths = None THEN <<>> ELSE fnIn.image_paths[1]

Loads(path) == ImageLoad(path).raises = ""

\* One image block per attachment that loads, in path order, then the text.
ExpectedContent(paths, text) ==
    LET good == SelectSeq(paths, Loads)
    IN  [i \in 1..Len(good) |-> ImageBlock(ImageLoad(good[i]))]
            \o <<TextBlock(text)>>

\* The call returned the single user message of the attachments that load.
PreparedAsExpected ==
    /\ fnOut[1].ok
    /\ fnOut[1].messages = <<Message("user", ExpectedContent(GivenPaths, fnIn.text))>>

\* C22: building a message from a text and image paths never raises: each
\* attachment whose loading fails, whatever the failure, is left out, and the
\* single user message holds one image block per attachment that loads, in
\* path order, followed by the text block.
AttachmentFailuresSkipped == Prepared => PreparedAsExpected

\* The same, for the attachments whose loading fails with FileNotFoundError
\* or ValueError only.
CaughtFailuresSkipped ==
    (Prepared /\ \A i \in 1..Len(GivenPaths) : GivenPaths[i] # "locked.png")
        => PreparedAsExpected

\* A missing file between two images that load has been left out.
MissingFileSkippedWitness ==
    /\ Prepared
    /\ GivenPaths = <<"photo.png", "missing.png", "icon.png">>
    /\ fnOut[1].ok
    /\ Len(fnOut[1].messages[1].content) = 3

\* ------------------------------------------------------- the client in use

\* The most client calls in a run.
MaxCalls == 2

\* Registered tools: the descriptors the decorator attaches.
SimpleTool ==
    tool_decorator(<<"Simple test tool">>, TRUE,
                   [n \in {"param1"} |-> <<"A parameter">>],
                   [name |-> "simple_tool_mock",
                    params |-> <<[name |-> "param1", annotation |-> Some(AnnStr),
                                  has_default |-> FALSE]>>]).tool

WeatherTool ==
    tool_decorator(<<"Fetch weather data">>, TRUE,
                   DescriptionsFor({"city", "units"}),
                   [name |-> "get_weather",
                    params |-> <<[name |-> "city", annotation |-> Some(AnnStr),
                                  has_default |-> FALSE],
                                 [name |-> "units", annotation |-> Some(UnitsLiteral),
                                  has_default |-> TRUE]>>]).tool

\* The environment of the process: every provider's variable is set.
ProcessEnv == [v \in EnvVars |-> Some(v)]

NoKeys == [k \in KeyArgs |-> None]

\* The constructor calls the runs start from.
ClientConfigs ==
    {[id |-> <<"mock">>, system_prompt |-> <<"M">>, tools |-> <<SimpleTool>>,
      debug |-> FALSE],
     [id |-> <<"haiku">>, system_prompt |-> <<>>, tools |-> <<>>,
      debug |-> FALSE],
     [id |-> <<"gpt4o">>, system_prompt |-> <<"S", "S", "S", "S">>,
      tools |-> <<SimpleTool>>, debug |-> TRUE],
     [id |-> <<"gemini1.5">>, system_prompt |-> <<>>, tools |-> <<>>,
      debug |-> FALSE]}

\* AI.__init__(model_name, system_prompt, tools, debug, keys...)
AI_init(cfg, keys, env) ==
    LET Built(m, w) ==
            [ok |-> m.ok /\ w.ok,
             self |-> AIObject(m.name, cfg.system_prompt, cfg.tools, cfg.debug, w)]
        Named(m) == Built(m, get_client(m.name, keys, env))
    IN  Named(get_model(cfg.id))

NoCall == [op |-> "none"]

\* A client just constructed, before any call.
InitClient ==
    /\ \E cfg \in ClientConfigs :
          \E ai \in {AI_init(cfg, NoKeys, ProcessEnv)} :
              /\ ai.ok
              /\ model_name = ai.self.model_name
              /\ system_prompt = ai.self.system_prompt
              /\ tools = ai.self.tools
              /\ debug = ai.self.debug
              /\ client = ai.self.client
    /\ history = <<>>
    /\ last_reasoning = None
    /\ tokenLog = <<>>
    /\ lastCall = NoCall
    /\ turnInputs = <<>>
    /\ nCalls = 0
    /\ nRequests = 0
    /\ fnIn = None
    /\ fnOut = None

\* One caller at a time.
Init ==
    /\ InitClient
    /\ threads = <<>>
    /\ overlapped = FALSE

Self == AIObject(model_name, system_prompt, tools, debug, client)

\* What the callers give.
InputTexts == {<<"a">>, <<"b", "b", "b", "b">>}

PromptArgs == {None, Some(<<"P", "P", "P", "P">>)}

Overrides == {None, Some(<<"gemini2.5flash">>)}

CallTools == {None, Some(<<WeatherTool>>)}

ImagePathLists ==
    {None, Some(<<"missing.png", "photo.png">>), Some(<<"corrupt.png">>),
     Some(<<"locked.png">>)}

CallerMessages ==
    {<<Message("user", <<TextBlock(<<"a">>)>>)>>,
     <<Message("user", <<TextBlock(<<"a">>)>>),
       Message("assistant", <<TextBlock(<<"h", "i">>)>>),
       Message("user", <<TextBlock(<<"b", "b", "b", "b">>)>>)>>}

\* What the backends do.
ReplyText == <<"o", "k", "a", "y">>

ReplyReasoning == <<"w", "h", "y">>

ClaudeReplies ==
    {[kind |-> "error", content |-> <<>>],
     [kind |-> "message", content |-> <<[type |-> "text", text |-> ReplyText]>>],
     [kind |-> "message",
      content |-> <<[type |-> "thinking", thinking |-> ReplyReasoning],
                    [type |-> "text", text |-> ReplyText]>>]}

GPTReplies ==
    {[kind |-> "error", content |-> None, tool_calls |-> <<>>,
      reasoning_content |-> None],
     [kind |-> "completion", content |-> Some(ReplyText), tool_calls |-> <<>>,
      reasoning_content |-> Some(ReplyReasoning)],
     [kind |-> "completion", content |-> None, tool_calls |-> <<>>,
      reasoning_content |-> None]}

GeminiCandidate(reason, text) ==
    [finish_reason |-> reason, safety_ratings |-> "[]",
     parts |-> IF text = None THEN <<>> ELSE <<[text |-> text]>>]

GeminiReplies ==
    {[kind |-> "error", candidates |-> <<>>, prompt_feedback |-> None,
      text_raises |-> FALSE, text |-> None],
     [kind |-> "response",
      candidates |-> <<GeminiCandidate(Some("STOP"), Some(ReplyText))>>,
      prompt_feedback |-> None, text_raises |-> FALSE, text |-> Some(ReplyText)],
     [kind |-> "response",
      candidates |-> <<GeminiCandidate(Some("MAX_TOKENS"), None)>>,
      prompt_feedback |-> None, text_raises |-> FALSE, text |-> None]}

Replies(class) ==
    CASE class = "MockWrapper" -> {[kind |-> "none"]}
      [] class = "ClaudeWrapper" -> ClaudeReplies
      [] class = "GeminiWrapper" -> GeminiReplies
      [] OTHER -> GPTReplies

\* The record of a call: the operation, its arguments, the transcript before
\* it and its outcome.
CallRecord(op, text, override, call_tools, outcome) ==
    [op |-> op, text |-> text, model_override |-> override,
     tools |-> call_tools, pre_history |-> history,
     pre_reasoning |-> last_reasoning, outcome |-> outcome]

\* One more request, if the call reached the adapter.
Requests(outcome) == nRequests + (IF outcome.sent # None THEN 1 ELSE 0)

\* ai.conversation(text, model_override=..., thinking=...)
ConversationCall ==
    /\ nCalls < MaxCalls
    /\ \E text \in InputTexts, override \in Overrides, thinking \in BOOLEAN,
          reply \in Replies(client.class) :
          \E res \in {AI_conversation(Self, history, last_reasoning,
                                      [kind |-> "str", text |-> text], None,
                                      override, Some(DEFAULT_MAX_TOKENS),
                                      DEFAULT_TEMPERATURE, FALSE, None, thinking,
                                      None, reply)} :
              /\ history' = res.history
              /\ last_reasoning' = res.last_reasoning
              /\ tokenLog' = tokenLog \o res.outcome.rows
              /\ lastCall' = CallRecord("conversation", text, override, None,
                                        res.outcome)
              /\ turnInputs' = IF res.outcome.ok THEN Append(turnInputs, text)
                               ELSE turnInputs
              /\ nRequests' = Requests(res.outcome)
    /\ nCalls' = nCalls + 1
    /\ UNCHANGED <<model_name, system_prompt, tools, debug, client, fnVars, threadVars>>

\* ai.message("a", model_override=..., tools=..., image_paths=...)
MessageCall ==
    /\ nCalls < MaxCalls
    /\ \E override \in Overrides, call_tools \in CallTools,
          image_paths \in ImagePathLists, reply \in Replies(client.class) :
          \E out \in {AI_message(Self, [kind |-> "str", text |-> <<"a">>], None,
                                 override, Some(DEFAULT_MAX_TOKENS),
                                 DEFAULT_TEMPERATURE, FALSE, image_paths,
                                 call_tools, FALSE, None, reply)} :
              /\ tokenLog' = tokenLog \o out.rows
              /\ lastCall' = CallRecord("message", <<"a">>, override, call_tools,
                                        out)
              /\ nRequests' = Requests(out)
    /\ nCalls' = nCalls + 1
    /\ UNCHANGED <<model_name, system_prompt, tools, debug, client, history,
                   last_reasoning, turnInputs, fnVars, threadVars>>

\* ai.messages(messages, system_prompt=...)
MessagesCall ==
    /\ nCalls < MaxCalls
    /\ \E messages \in CallerMessages, prompt \in PromptArgs,
          reply \in Replies(client.class) :
          \E out \in {AI_messages(Self, messages, prompt, None,
                                  Some(DEFAULT_MAX_TOKENS), DEFAULT_TEMPERATURE,
                                  FALSE, None, FALSE, None, reply)} :
              /\ tokenLog' = tokenLog \o out.rows
              /\ lastCall' = CallRecord("messages", <<>>, None, None, out)
              /\ nRequests' = Requests(out)
    /\ nCalls' = nCalls + 1
    /\ UNCHANGED <<model_name, system_prompt, tools, debug, client, history,
                   last_reasoning, turnInputs, fnVars, threadVars>>

Next == ConversationCall \/ MessageCall \/ MessagesCall

Spec == Init /\ [][Next]_vars

\* ------------------------------------------------ the client's properties

\* The last call was made and reached the adapter.
ReachedAdapter == lastCall.op # "none" /\ lastCall.outcome.sent # None

\* The last call was a conversation turn that returned.
TurnReturned == lastCall.op = "conversation" /\ lastCall.outcome.ok

\* A user message holding one text block with the given text.
IsUserText(m, text) ==
    /\ m.role = "user"
    /\ Len(m.content) = 1
    /\ m.content[1].type = "text"
    /\ m.content[1].text = Some(text)

\* C1: after n conversation turns that returned on a fresh client, the
\* transcript holds exactly 2n messages, user and assistant alternating, and
\* the k-th user message carries the text of the k-th turn.
TranscriptAlternates ==
    /\ Len(history) = 2 * Len(turnInputs)
    /\ \A k \in 1..Len(turnInputs) :
          /\ IsUserText(history[2 * k - 1], turnInputs[k])
          /\ history[2 * k].role = "assistant"

\* Two turns with different texts have returned.
TwoTurnsWitness ==
    /\ Len(turnInputs) = 2
    /\ turnInputs[1] # turnInputs[2]
    /\ Len(history) = 4

\* C2: in every conversation turn the message list given to the adapter is
\* the transcript stored before the turn followed by the new user message,
\* and when the turn returns the transcript is that list followed by one
\* assistant message whose single text block is the response's content.
ConversationSendsAndStores ==
    (lastCall.op = "conversation" /\ ReachedAdapter) =>
        /\ Len(lastCall.outcome.sent[1].messages) = Len(lastCall.pre_history) + 1
        /\ IsPrefix(lastCall.pre_history, lastCall.outcome.sent[1].messages)
        /\ IsUserText(lastCall.outcome.sent[1].messages[Len(lastCall.pre_history) + 1],
                      lastCall.text)
        /\ lastCall.outcome.ok =>
              /\ Len(history) = Len(lastCall.outcome.sent[1].messages) + 1
              /\ IsPrefix(lastCall.outcome.sent[1].messages, history)
              /\ history[Len(history)].role = "assistant"
              /\ Len(history[Len(history)].content) = 1
              /\ history[Len(history)].content[1].type = "text"
              /\ history[Len(history)].content[1].text = lastCall.outcome.response.content

\* A second turn has returned: it sent the first exchange and the new message.
SecondTurnSentWitness ==
    /\ TurnReturned
    /\ Len(lastCall.outcome.sent[1].messages) = 3
    /\ Len(history) = 4

\* C3: over every message, messages and conversation call the transcript
\* before the call is a prefix of the transcript after it.
TranscriptOnlyGrows == [][IsPrefix(history, history')]_vars

\* A message call has returned on a client that holds a transcript, which it
\* left as it was.
CallOnTranscriptWitness ==
    /\ lastCall.op \in {"message", "messages"}
    /\ lastCall.outcome.ok
    /\ Len(lastCall.pre_history) = 2
    /\ history = lastCall.pre_history

\* The reasoning traces the backends of this model produce.
ReasoningTraces == {ReplyReasoning, MockReasoning(None)}

\* part occurs in text.
Contains(text, part) ==
    \E i \in 0..(Len(text) - Len(part)) : SubSeq(text, i + 1, i + Len(part)) = part

\* C4: after a conversation turn that returned, the latest reasoning is the
\* reasoning of that turn's response, and absent when that response has none;
\* every block of the transcript is a text block with the five fields of a
\* MessageContent, and no reasoning trace occurs in its text.
ReasoningIsSideChannel ==
    /\ TurnReturned =>
          last_reasoning = (IF lastCall.outcome.response.reasoning \in {None, Some(<<>>)}
                            THEN None
                            ELSE lastCall.outcome.response.reasoning)
    /\ \A i \in 1..Len(history) : \A j \in 1..Len(history[i].content) :
          /\ DOMAIN history[i].content[j]
               = {"type", "text", "tool_call", "tool_result", "image"}
          /\ history[i].content[j].type = "text"
          /\ \A t \in ReasoningTraces : ~Contains(history[i].content[j].text[1], t)

\* A turn whose response has no reasoning has returned after a turn whose
\* response had one.
ReasoningClearedWitness ==
    /\ TurnReturned
    /\ lastCall.pre_reasoning # None
    /\ lastCall.outcome.response.reasoning = None
    /\ last_reasoning = None

\* C5: every request sent through an adapter appends exactly two rows to the
\* token-usage sink, the input row and then the output row, so that k
\* requests leave 2k rows.
SinkTwicePerRequest ==
    /\ Len(tokenLog) = 2 * nRequests
    /\ ReachedAdapter =>
          /\ Len(lastCall.outcome.rows) = 2
          /\ lastCall.outcome.rows[1].direction = "input"
          /\ lastCall.outcome.rows[2].direction = "output"

\* C6: in every message and messages call the set of tools given to the
\* adapter is the union of the constructor's tools and the call's tools.
ToolsAreUnion ==
    (lastCall.op \in {"message", "messages"} /\ ReachedAdapter) =>
        Range(lastCall.outcome.sent[1].tools)
          = Range(tools) \cup (IF lastCall.tools = None THEN {}
                               ELSE Range(lastCall.tools[1]))

\* A call with a tool of its own on a client built with another tool.
BothToolsWitness ==
    /\ lastCall.op = "message"
    /\ ReachedAdapter
    /\ lastCall.tools # None
    /\ tools # <<>>
    /\ Cardinality(Range(lastCall.outcome.sent[1].tools)) = 2

\* The provider and canonical model name of the last call's effective
\* identifier: the override's when one is given, else the constructor's.
EffectiveTarget ==
    IF TruthyText(lastCall.model_override)
    THEN resolve_model_info(lastCall.model_override[1])
    ELSE [ok |-> TRUE, provider |-> CHOOSE p \in ProvidersOf(model_name) : TRUE,
          model_name |-> model_name, error |-> <<>>]

\* C9: for every request the adapter that serves it is the adapter of the
\* provider the effective model identifier resolves to, and the model name
\* given to the adapter and sent to the backend is that identifier's
\* canonical model name.
AdapterMatchesEffectiveModel ==
    ReachedAdapter =>
        /\ lastCall.outcome.adapter.class = WrapperClassOf(EffectiveTarget.provider)
        /\ lastCall.outcome.sent[1].model_name = EffectiveTarget.model_name
        /\ \A i \in 1..Len(lastCall.outcome.requests) :
              lastCall.outcome.requests[i].model = EffectiveTarget.model_name

\* The backend calls a client call made: the requests its adapter sent, the
\* mock adapter being its own backend.
BackendCalls(outcome) ==
    IF outcome.sent = None THEN 0
    ELSE IF outcome.adapter.class = "MockWrapper" THEN 1
    ELSE Len(outcome.requests)

\* C24: each message, messages or conversation call makes exactly one backend
\* call and then returns or fails; no call makes a second one, and a failed
\* backend call is not retried.
OneBackendCallPerCall ==
    lastCall.op # "none" => BackendCalls(lastCall.outcome) = 1

\* The same over the calls whose user message was built, and never more than
\* one backend call whatever the call.
OneBackendCallOnceBuilt ==
    lastCall.op # "none" =>
        /\ BackendCalls(lastCall.outcome) <= 1
        /\ lastCall.outcome.sent # None => BackendCalls(lastCall.outcome) = 1
        /\ nRequests <= nCalls

\* A backend call failed and the call failed with it, after one request.
FailedOnceWitness ==
    /\ lastCall.op # "none"
    /\ lastCall.outcome.sent # None
    /\ ~lastCall.outcome.ok
    /\ lastCall.outcome.adapter.class = "ClaudeWrapper"
    /\ Len(lastCall.outcome.requests) = 1

\* The last call was a conversation turn that raised.
TurnRaised == lastCall.op = "conversation" /\ ~lastCall.outcome.ok

\* C27: a conversation call that raises, because the backend call failed or
\* because the response has no text content to build the assistant block
\* from, leaves the transcript and the latest reasoning as they were before
\* the call: no user message is kept and no assistant message is added.
RaisedTurnLeavesNoTrace ==
    TurnRaised =>
        /\ history = lastCall.pre_history
        /\ last_reasoning = lastCall.pre_reasoning

\* After a turn that returned with reasoning, the backend answered a second
\* turn without text content and the turn raised.
NoContentTurnWitness ==
    /\ TurnRaised
    /\ lastCall.outcome.sent # None
    /\ Len(lastCall.outcome.requests) = 1
    /\ lastCall.outcome.response.content = None
    /\ Len(lastCall.pre_history) = 2
    /\ lastCall.pre_reasoning # None
    /\ history = lastCall.pre_history

\* After a turn that returned, the backend call of a second turn failed.
BackendFailedTurnWitness ==
    /\ TurnRaised
    /\ lastCall.outcome.sent # None
    /\ lastCall.outcome.adapter.class = "ClaudeWrapper"
    /\ Len(lastCall.pre_history) = 2

\* The step is a message or messages call.
StatelessCall == lastCall'.op \in {"message", "messages"} /\ nCalls' = nCalls + 1

MaxBlocks == 2

\* The adapters under check, as get_wrapper builds them.
AdapterSelves ==
    {Wrapper("ClaudeWrapper", Some("k"), None),
     Wrapper("GPTWrapper", Some("k"), None),
     Wrapper("GeminiWrapper", Some("k"), Some(<<"gemini-1.5-pro-latest">>))}

ValueResult == ToolResult("get_weather", Some(<<"sunny">>), Some("call1"), None)

ErrorResult == ToolResult("get_weather", None, Some("call2"), Some(<<"boom">>))

ResultBlock(tool_result) ==
    ContentFields("tool_result", None, None, Some(tool_result), None)

AdapterBlocks ==
    {TextBlock(<<"a">>),
     ContentFields("tool_use", None,
                   Some(ToolCall("get_weather", <<>>, Some("call1"))), None, None),
     ResultBlock(ValueResult), ResultBlock(ErrorResult)}

\* One message of one to MaxBlocks blocks, after a user's question.
AdapterMessageLists ==
    {<<Message("user", <<TextBlock(<<"q">>)>>), Message(role, content)>> :
        role \in {"user", "assistant", "tool"},
        content \in {c \in SeqsUpTo(AdapterBlocks, MaxBlocks) : c # <<>>}}

PlainArgs(messages) ==
    AdapterArgs(<<"model">>, messages, <<"S">>, Some(100), "0.0", <<>>, FALSE, None)

\* A backend that answers every request with the text "okay".
PlainReply(class) ==
    CASE class = "ClaudeWrapper" ->
            [kind |-> "message", content |-> <<[type |-> "text", text |-> ReplyText]>>]
      [] class = "GeminiWrapper" ->
            [kind |-> "response",
             candidates |-> <<GeminiCandidate(Some("STOP"), Some(ReplyText))>>,
             prompt_feedback |-> None, text_raises |-> FALSE,
             text |-> Some(ReplyText)]
      [] OTHER ->
            [kind |-> "completion", content |-> Some(ReplyText),
             tool_calls |-> <<>>, reasoning_content |-> None]

InitSerialize ==
    /\ \E self \in AdapterSelves, messages \in AdapterMessageLists :
          fnIn = [op |-> "adapter", check |-> "serialize", self |-> self,
                  a |-> PlainArgs(messages), reply |-> PlainReply(self.class)]
    /\ fnOut = None
    /\ ClientIdle

\* The most blocks of an Anthropic reply.
MaxReplyBlocks == 3

REDACTED_PLACEHOLDER == <<"[Some reasoning was redacted for safety reasons]\n">>

ClaudeReplyBlocks ==
    {[type |-> "text", text |-> <<"o", "k">>],
     [type |-> "text", text |-> <<"a", "y">>],
     [type |-> "tool_use", id |-> "toolu_1", name |-> "get_weather",
      input |-> "{city: Paris}"],
     [type |-> "tool_use", id |-> "toolu_2", name |-> "get_time", input |-> "{}"],
     [type |-> "thinking", thinking |-> <<"w", "h", "y">>],
     [type |-> "redacted_thinking"]}

InitParse ==
    /\ \E blocks \in SeqsUpTo(ClaudeReplyBlocks, MaxReplyBlocks) :
          fnIn = [op |-> "adapter", check |-> "parse",
                  self |-> Wrapper("ClaudeWrapper", Some("k"), None),
                  a |-> PlainArgs(<<Message("user", <<TextBlock(<<"q">>)>>)>>),
                  reply |-> [kind |-> "message", content |-> blocks]]
    /\ fnOut = None
    /\ ClientIdle

\* What the Google backend can reply: no candidate, with or without prompt
\* feedback, or one candidate with a finish reason and parts; reading
\* response.text gives the text of the parts, or raises.
FinishReasons ==
    {None, Some("STOP"), Some("SAFETY"), Some("RECITATION"), Some("MAX_TOKENS"),
     Some("OTHER")}

PromptFeedbacks ==
    {None,
     Some([block_reason |-> None, safety_ratings |-> "[]"]),
     Some([block_reason |-> Some("SAFETY"), safety_ratings |-> "[]"]),
     Some([block_reason |-> Some("PROHIBITED_CONTENT"), safety_ratings |-> "[]"])}

PartialText == <<"p", "a">>

\* The parts of a candidate: text parts, and parts of another kind (inline
\* data, a function call), whose text is None.
CandidateParts ==
    {<<>>, <<[text |-> Some(PartialText)]>>, <<[text |-> None]>>,
     <<[text |-> Some(PartialText)], [text |-> None]>>}

HasOtherPart(parts) == \E i \in 1..Len(parts) : parts[i].text = None

\* response.text where it does not raise: the text parts concatenated, None
\* when there is none.
PartsText(parts) ==
    IF \A i \in 1..Len(parts) : parts[i].text = None THEN None
    ELSE Some(Flatten([i \in 1..Len(parts) |->
                         IF parts[i].text = None THEN <<>> ELSE parts[i].text[1]]))

\* Reading response.text raises only for a candidate that holds a part of
\* another kind, and only in the SDK releases that refuse such parts.
GeminiCheckReplies ==
    {[kind |-> "response", candidates |-> <<>>, prompt_feedback |-> f,
      text_raises |-> FALSE, text |-> None] : f \in PromptFeedbacks}
    \cup
    {[kind |-> "response",
      candidates |-> <<[finish_reason |-> r, safety_ratings |-> "[]",
                        parts |-> pr[1]]>>,
      prompt_feedback |-> None, text_raises |-> pr[2],
      text |-> IF pr[2] THEN None ELSE PartsText(pr[1])] :
        r \in FinishReasons,
        pr \in {q \in CandidateParts \X BOOLEAN : q[2] => HasOtherPart(q[1])}}

InitGemini ==
    /\ \E reply \in GeminiCheckReplies :
          fnIn = [op |-> "adapter", check |-> "gemini",
                  self |-> Wrapper("GeminiWrapper", Some("k"),
                                   Some(<<"gemini-1.5-pro-latest">>)),
                  a |-> PlainArgs(<<Message("user", <<TextBlock(<<"q">>)>>)>>),
                  reply |-> reply]
    /\ fnOut = None
    /\ ClientIdle

\* The sampling arguments a caller can give the Anthropic adapter.
BudgetArgs == {None, Some(0), Some(1024), Some(20000)}

MaxTokensArgs == {None, Some(0), Some(1001), Some(4096), Some(40000)}

TemperatureArgs == {"0.0", "0.7"}

InitThinking ==
    /\ \E thinking \in BOOLEAN, budget \in BudgetArgs,
          max_tokens \in MaxTokensArgs, temperature \in TemperatureArgs :
          fnIn = [op |-> "adapter", check |-> "thinking",
                  self |-> Wrapper("ClaudeWrapper", Some("k"), None),
                  a |-> AdapterArgs(<<"claude-3-7-sonnet-latest">>,
                                    <<Message("user", <<TextBlock(<<"q">>)>>)>>,
                                    <<"S">>, max_tokens, temperature, <<>>,
                                    thinking, budget),
                  reply |-> PlainReply("ClaudeWrapper")]
    /\ fnOut = None
    /\ ClientIdle

\* The most messages of a conversation handed to an adapter.
MaxMessages == 2

\* Text-only messages, each with a text of its own.
TextMessages ==
    {Message("user", <<TextBlock(<<"a">>)>>),
     Message("assistant", <<TextBlock(<<"b">>)>>),
     Message("user", <<TextBlock(<<"c">>)>>),
     Message("assistant", <<TextBlock(<<"d">>)>>)}

SystemPromptArgs == {<<>>, <<"S">>}

InitOrder ==
    /\ \E self \in AdapterSelves, prompt \in SystemPromptArgs,
          messages \in {ms \in SeqsUpTo(TextMessages, MaxMessages) : Distinct(ms)} :
          fnIn = [op |-> "adapter", check |-> "order", self |-> self,
                  a |-> AdapterArgs(<<"model">>, messages, prompt, Some(100),
                                    "0.0", <<>>, FALSE, None),
                  reply |-> PlainReply(self.class)]
    /\ fnOut = None
    /\ ClientIdle

\* The texts of the blocks of a text-only message.
EchoTexts == {<<>>, <<"a">>, <<"h", "i">>, <<" ", "x", "\n">>}

\* The text of a list of blocks that carry one.
TextOf(blocks) == Flatten([i \in 1..Len(blocks) |-> blocks[i].text])

\* The text the last message of a wire request carries.
WireText(class, request) ==
    LET IsText(b) == b.type = "text"
        Last(seq) == seq[Len(seq)]
        OpenAIText(content) ==
            IF "text" \in DOMAIN content THEN content.text
            ELSE TextOf(SelectSeq(content.parts, IsText))
    IN  CASE class = "ClaudeWrapper" ->
                TextOf(SelectSeq(Last(request.messages).content, IsText))
          [] class = "GeminiWrapper" ->
                IF request.contents = <<>> THEN <<>>
                ELSE TextOf(Last(request.contents).parts)
          [] OTHER -> OpenAIText(Last(request.messages).content)

\* A backend that answers with the given text.
EchoReply(class, text) ==
    CASE class = "ClaudeWrapper" ->
            [kind |-> "message", content |-> <<[type |-> "text", text |-> text]>>]
      [] class = "GeminiWrapper" ->
            [kind |-> "response",
             candidates |-> <<GeminiCandidate(Some("STOP"), Some(text))>>,
             prompt_feedback |-> None, text_raises |-> FALSE, text |-> Some(text)]
      [] OTHER ->
            [kind |-> "completion", content |-> Some(text), tool_calls |-> <<>>,
             reasoning_content |-> None]

\* A text-only message is sent and the backend answers with the text it was
\* sent.
InitEcho ==
    /\ \E self \in AdapterSelves, prompt \in SystemPromptArgs,
          texts \in SeqsUpTo(EchoTexts, MaxBlocks) \ {<<>>} :
          \E a \in {AdapterArgs(<<"model">>,
                                <<Message("user", [i \in 1..Len(texts) |->
                                                      TextBlock(texts[i])])>>,
                                prompt, Some(100), "0.0", <<>>, FALSE, None)} :
              \E sent \in {_messages(self, a, PlainReply(self.class))} :
                  fnIn = [op |-> "adapter", check |-> "echo", self |-> self,
                          a |-> a,
                          reply |-> EchoReply(self.class,
                                              WireText(self.class, sent.requests[1]))]
    /\ fnOut = None
    /\ ClientIdle

InitAdapter == InitSerialize \/ InitParse \/ InitGemini \/ InitThinking \/ InitOrder \/ InitEcho

\* adapter._messages(model_name, messages, ...) against a backend.
ApplyAdapter ==
    /\ fnIn.op = "adapter"
    /\ fnOut = None
    /\ \E r \in {_messages(fnIn.self, fnIn.a, fnIn.reply)} : fnOut' = Some(r)
    /\ UNCHANGED <<fnIn, clientVars>>

SpecAdapter == InitAdapter /\ [][ApplyAdapter]_vars

\* The request the adapter sent to its backend.
AdapterSent == fnOut # None /\ fnIn.op = "adapter" /\ fnOut[1].requests # <<>>

WireRequest == fnOut[1].requests[1]

\* The tool results of the input messages, in order.
InputToolResults ==
    Flatten([i \in 1..Len(fnIn.a.messages) |-> ToolResultsOf(fnIn.a.messages[i])])

\* The tool outputs of a wire request, in order, each with the identifier
\* it is tagged with and the payload it carries.
ClaudeToolOutputs(request) ==
    LET IsOutput(b) == b.type = "tool_result"
        Outputs(blocks) == SelectSeq(blocks, IsOutput)
        Of(m) == [i \in 1..Len(Outputs(m.content)) |->
                     [id |-> Outputs(m.content)[i].tool_use_id,
                      payload |-> Outputs(m.content)[i].content]]
    IN  Flatten([i \in 1..Len(request.messages) |-> Of(request.messages[i])])

OpenAIToolOutputs(request) ==
    LET IsOutput(m) == m.role = "tool"
        outs == SelectSeq(request.messages, IsOutput)
    IN  [i \in 1..Len(outs) |->
            [id |-> outs[i].tool_call_id,
             payload |-> IF outs[i].content.json.result # None
                         THEN outs[i].content.json.result[1]
                         ELSE IF outs[i].content.json.error # None
                         THEN outs[i].content.json.error[1] ELSE <<>>]]

\* A Gemini part is a text or inline data: none is a tool output.
GeminiToolOutputs(request) == <<>>

WireToolOutputs ==
    CASE fnIn.self.class = "ClaudeWrapper" -> ClaudeToolOutputs(WireRequest)
      [] fnIn.self.class = "GeminiWrapper" -> GeminiToolOutputs(WireRequest)
      [] OTHER -> OpenAIToolOutputs(WireRequest)

IsSuffix(s, t) ==
    Len(s) <= Len(t) /\ \A i \in 1..Len(s) : s[i] = t[Len(t) - Len(s) + i]

\* The payload is the result's value or, for a result that holds an error
\* instead, ends with the error text.
Carries(payload, tool_result) ==
    IF tool_result.result # None
    THEN payload = tool_result.result[1]
    ELSE tool_result.error # None /\ IsSuffix(tool_result.error[1], payload)

\* C16: every tool-result block of every input message is in the wire
\* request as a tool output tagged with the identifier of its invocation and
\* carrying the result's value, or the error text of a result that holds an
\* error; none is dropped.
ToolResultsReachTheWire ==
    (AdapterSent /\ fnIn.check = "serialize") =>
        /\ Len(WireToolOutputs) = Len(InputToolResults)
        /\ \A i \in 1..Len(InputToolResults) :
              /\ WireToolOutputs[i].id = InputToolResults[i].tool_call_id
              /\ Carries(WireToolOutputs[i].payload, InputToolResults[i])

\* The same for the Anthropic adapter alone.
ClaudeToolResultsReachTheWire ==
    fnIn.self.class = "ClaudeWrapper" => ToolResultsReachTheWire

\* The blocks of an Anthropic reply of the given types, in order.
BlocksOfType(blocks, types) ==
    LET Wanted(b) == b.type \in types IN SelectSeq(blocks, Wanted)

ReplyTextOf(blocks) ==
    LET ts == BlocksOfType(blocks, {"text"})
    IN  Flatten([i \in 1..Len(ts) |-> ts[i].text])

ReplyToolCallsOf(blocks) ==
    LET us == BlocksOfType(blocks, {"tool_use"})
    IN  [i \in 1..Len(us) |-> ToolCall(us[i].name, us[i].input, Some(us[i].id))]

ReplyReasoningOf(blocks) ==
    LET rs == BlocksOfType(blocks, {"thinking", "redacted_thinking"})
    IN  Flatten([i \in 1..Len(rs) |->
                    IF rs[i].type = "thinking" THEN rs[i].thinking
                    ELSE REDACTED_PLACEHOLDER])

\* C17: for an Anthropic reply the content is the text blocks concatenated
\* in order, the tool calls are the tool_use blocks in order (absent when
\* there are none, present beside the text when both occur), and the
\* reasoning is the thinking blocks concatenated in order with the
\* placeholder for each redacted block (absent when there are neither).
ClaudeReplyParsed ==
    (fnOut # None /\ fnIn.op = "adapter" /\ fnIn.check = "parse") =>
        /\ fnOut[1].ok
        /\ fnOut[1].response.content = Some(ReplyTextOf(fnIn.reply.content))
        /\ fnOut[1].response.tool_calls =
              (IF BlocksOfType(fnIn.reply.content, {"tool_use"}) = <<>>
               THEN None ELSE Some(ReplyToolCallsOf(fnIn.reply.content)))
        /\ fnOut[1].response.reasoning =
              (IF BlocksOfType(fnIn.reply.content,
                               {"thinking", "redacted_thinking"}) = <<>>
               THEN None ELSE Some(ReplyReasoningOf(fnIn.reply.content)))

\* A reply of a redacted block, a text and a tool call has been parsed.
MixedReplyWitness ==
    /\ fnOut # None
    /\ fnIn.op = "adapter"
    /\ fnIn.check = "parse"
    /\ Len(fnIn.reply.content) = 3
    /\ fnIn.reply.content[1].type = "redacted_thinking"
    /\ fnIn.reply.content[2].type = "text"
    /\ fnIn.reply.content[3].type = "tool_use"
    /\ fnOut[1].response.tool_calls # None
    /\ fnOut[1].response.content = Some(<<"o", "k">>)

GeminiChecked == fnOut # None /\ fnIn.op = "adapter" /\ fnIn.check = "gemini"

FirstFinishReason ==
    IF fnIn.reply.candidates = <<>> THEN None
    ELSE fnIn.reply.candidates[1].finish_reason

\* C18: a Google reply without candidates makes the call fail, with the
\* block reason in the error when the backend reports one; a first candidate
\* that finished with SAFETY or RECITATION makes the call fail too; no
\* response is returned in any of these cases.
GeminiBlockedFails ==
    GeminiChecked =>
        /\ fnIn.reply.candidates = <<>> =>
              /\ ~fnOut[1].ok
              /\ (fnIn.reply.prompt_feedback # None
                     /\ fnIn.reply.prompt_feedback[1].block_reason # None) =>
                    fnIn.reply.prompt_feedback[1].block_reason[1]
                        \in Range(fnOut[1].error)
        /\ FirstFinishReason \in {Some("SAFETY"), Some("RECITATION")} =>
              ~fnOut[1].ok

\* A reply without candidates whose prompt feedback reports SAFETY has been
\* handled.
PromptBlockedWitness ==
    /\ GeminiChecked
    /\ fnIn.reply.candidates = <<>>
    /\ fnIn.reply.prompt_feedback # None
    /\ fnIn.reply.prompt_feedback[1].block_reason = Some("SAFETY")
    /\ ~fnOut[1].ok

\* The text a Google reply holds: the text of its first part.
PartialTextOf(reply) == PartsText(reply.candidates[1].parts)

\* C19: a first candidate that finished with MAX_TOKENS or OTHER is never a
\* failure: the call returns a response with the partial text present and
\* an annotation naming the finish reason; a response that finished
\* normally has no annotation.
GeminiTruncatedReturns ==
    GeminiChecked =>
        /\ FirstFinishReason \in {Some("MAX_TOKENS"), Some("OTHER")} =>
              /\ fnOut[1].ok
              /\ fnOut[1].response.content = PartialTextOf(fnIn.reply)
              /\ fnOut[1].response.error # None
              /\ FirstFinishReason[1] \in Range(fnOut[1].response.error[1])
        /\ (FirstFinishReason \in {None, Some("STOP")} /\ fnOut[1].ok) =>
              fnOut[1].response.error = None

\* The same, for replies whose text can be read.
GeminiTruncatedReturnsReadable ==
    (GeminiChecked /\ ~fnIn.reply.text_raises) => GeminiTruncatedReturns

ThinkingChecked == AdapterSent /\ fnIn.check = "thinking"

\* A number the caller gave: not None and, as Python's `or` reads it, not 0.
Specified(opt) == opt # None /\ opt[1] # 0

\* C20: with thinking enabled the Anthropic adapter sends the caller's
\* budget when one is specified and otherwise min(16000, max_tokens div 2),
\* max_tokens being 4096 when absent, and sends temperature 1.0 whatever the
\* caller gave; with thinking disabled it sends no thinking parameter and
\* the caller's temperature.
ThinkingBudgetAndTemperature ==
    ThinkingChecked =>
        LET tokens == IF Specified(fnIn.a.max_tokens)
                      THEN fnIn.a.max_tokens[1] ELSE 4096
            half == tokens \div 2
            budget == IF Specified(fnIn.a.thinking_budget_tokens)
                      THEN fnIn.a.thinking_budget_tokens[1]
                      ELSE IF half < 16000 THEN half ELSE 16000
        IN  IF fnIn.a.thinking
            THEN /\ WireRequest.thinking =
                       Some([type |-> "enabled", budget_tokens |-> budget])
                 /\ WireRequest.temperature = "1.0"
            ELSE /\ WireRequest.thinking = None
                 /\ WireRequest.temperature = fnIn.a.temperature

\* Thinking was enabled without a budget and with max_tokens 40000: the
\* ceiling applies.
CeilingBudgetWitness ==
    /\ ThinkingChecked
    /\ fnIn.a.thinking
    /\ fnIn.a.thinking_budget_tokens = None
    /\ fnIn.a.max_tokens = Some(40000)
    /\ fnIn.a.temperature = "0.7"
    /\ WireRequest.thinking # None
    /\ WireRequest.thinking[1].budget_tokens = 16000

OrderChecked == AdapterSent /\ fnIn.check = "order"

\* The role and text of each caller message, in order.
CallerSequence ==
    [i \in 1..Len(fnIn.a.messages) |->
        [role |-> fnIn.a.messages[i].role,
         text |-> fnIn.a.messages[i].content[1].text[1]]]

\* C21: in every adapter's request the system prompt precedes all
\* conversation messages, which keep their order: the OpenAI adapter sends a
\* non-empty prompt as one leading system message followed by the caller's
\* messages; the Anthropic and Google adapters pass it as a parameter,
\* unchanged.
SystemPromptFirst ==
    OrderChecked =>
        CASE fnIn.self.class = "ClaudeWrapper" ->
                /\ WireRequest.system = fnIn.a.system_prompt
                /\ [i \in 1..Len(WireRequest.messages) |->
                        [role |-> WireRequest.messages[i].role,
                         text |-> WireRequest.messages[i].content[1].text]]
                      = CallerSequence
          [] fnIn.self.class = "GeminiWrapper" ->
                /\ fnIn.a.system_prompt # <<>> =>
                      WireRequest.config.system_instruction =
                          Some(fnIn.a.system_prompt)
                /\ fnIn.a.system_prompt = <<>> =>
                      WireRequest.config.system_instruction = None
                /\ [i \in 1..Len(WireRequest.contents) |->
                        [role |-> IF WireRequest.contents[i].role = "model"
                                  THEN "assistant"
                                  ELSE WireRequest.contents[i].role,
                         text |-> WireRequest.contents[i].parts[1].text]]
                      = CallerSequence
          [] OTHER ->
                [i \in 1..Len(WireRequest.messages) |->
                    [role |-> WireRequest.messages[i].role,
                     text |-> WireRequest.messages[i].content.text]]
                  = (IF fnIn.a.system_prompt # <<>>
                     THEN <<[role |-> "system", text |-> fnIn.a.system_prompt]>>
                     ELSE <<>>) \o CallerSequence

\* The OpenAI adapter has sent two messages under a system prompt.
SystemMessageLeadsWitness ==
    /\ OrderChecked
    /\ fnIn.self.class = "GPTWrapper"
    /\ fnIn.a.system_prompt = <<"S">>
    /\ Len(fnIn.a.messages) = 2
    /\ Len(WireRequest.messages) = 3
    /\ WireRequest.messages[1].role = "system"

\* ------------------------------------------ several callers on one client

\* The callers that share one client.
MaxThreads == 2

Threads == 1..MaxThreads

\* The text a caller sends: no two callers send the same.
ThreadText(t) == [i \in 1..t |-> "a"]

InitThreads ==
    /\ InitClient
    /\ threads = [t \in Threads |-> [pc |-> "idle", history |-> <<>>]]
    /\ overlapped = FALSE

\* `messages = self._history + self._prepare_messages(message, image_paths)`:
\* the caller reads the transcript and goes on to the backend with its copy.
BeginTurn(t) ==
    /\ threads[t].pc = "idle"
    /\ threads' = [threads EXCEPT ![t] = [pc |-> "sent", history |-> history]]
    /\ overlapped' = (overlapped \/ \E u \in Threads : threads[u].pc = "sent")
    /\ nCalls' = nCalls + 1
    /\ UNCHANGED <<model_name, system_prompt, tools, debug, client, history,
                   last_reasoning, tokenLog, lastCall, turnInputs, nRequests,
                   fnVars>>

\* The rest of conversation(): the backend answers or fails, and on an answer
\* `self._history = messages + [...]` and `self._last_reasoning = ...` store
\* what follows from the transcript the caller read.
FinishTurn(t) ==
    /\ threads[t].pc = "sent"
    /\ \E reply \in Replies(client.class) :
          \E res \in {AI_conversation(Self, threads[t].history, last_reasoning,
                                      [kind |-> "str", text |-> ThreadText(t)],
                                      None, None, Some(DEFAULT_MAX_TOKENS),
                                      DEFAULT_TEMPERATURE, FALSE, None, FALSE,
                                      None, reply)} :
              /\ history' = IF res.outcome.ok THEN res.history ELSE history
              /\ last_reasoning' = IF res.outcome.ok THEN res.last_reasoning
                                   ELSE last_reasoning
              /\ tokenLog' = tokenLog \o res.outcome.rows
              /\ lastCall' = CallRecord("conversation", ThreadText(t), None, None,
                                        res.outcome)
              /\ turnInputs' = IF res.outcome.ok
                               THEN Append(turnInputs, ThreadText(t))
                               ELSE turnInputs
              /\ nRequests' = Requests(res.outcome)
    /\ threads' = [threads EXCEPT ![t].pc = "done"]
    /\ UNCHANGED <<model_name, system_prompt, tools, debug, client, nCalls,
                   overlapped, fnVars>>

NextThreads == \E t \in Threads : BeginTurn(t) \/ FinishTurn(t)

SpecThreads == InitThreads /\ [][NextThreads]_vars

\* The transcript holds the user message of a turn with the given text.
HoldsTurn(text) == \E i \in 1..Len(history) : IsUserText(history[i], text)

\* A turn that returned has no user message in the transcript.
LostTurn == \E k \in 1..Len(turnInputs) : ~HoldsTurn(turnInputs[k])

\* C23: two conversation calls on one client that overlap, both reading the
\* transcript before either stores, can leave a transcript without the
\* messages of one of the two turns; when no two calls overlap the transcript
\* holds the user and assistant messages of every turn that returned.
TurnLostOnlyByOverlap ==
    /\ LostTurn => overlapped
    /\ ~overlapped => Len(history) = 2 * Len(turnInputs)

\* Two overlapping turns returned and the transcript holds one of them.
LostUpdateWitness ==
    /\ overlapped
    /\ Len(turnInputs) = 2
    /\ LostTurn
    /\ Len(history) = 2

EchoChecked == fnOut # None /\ fnIn.op = "adapter" /\ fnIn.check = "echo"

\* The text of the message given to the adapter.
OriginalText ==
    Flatten([i \in 1..Len(fnIn.a.messages[1].content) |->
                fnIn.a.messages[1].content[i].text[1]])

\* C25: for each adapter, when a text-only message is serialized to the
\* backend's wire format and the backend replies with the text it received,
\* the response's content is the original text, nothing added, dropped or
\* reordered.
TextRoundTrip ==
    EchoChecked =>
        /\ fnOut[1].ok
        /\ fnOut[1].response.content = Some(OriginalText)

\* A message of two text blocks has made the round trip through the OpenAI
\* adapter.
TwoBlockEchoWitness ==
    /\ EchoChecked
    /\ fnIn.self.class = "GPTWrapper"
    /\ Len(fnIn.a.messages[1].content) = 2
    /\ OriginalText = <<"h", "i", "a">>
    /\ fnOut[1].ok

\* ---------------------------------------- resolutions, one after another

\* The most calls in a run of resolutions and adapter constructions.
MaxSteps == 3

RegistryIds == {<<"haiku">>, <<"gpt4o">>, <<"google", ":", "m1">>, <<"nope">>}

\* The key arguments of a construction: none, or the OpenAI key.
RegistryKeys == {NoKeys, [NoKeys EXCEPT !["openai_api_key"] = Some("k")]}

\* The environment of the process: no variable set, or every one.
RegistryEnvs == {[v \in EnvVars |-> None], ProcessEnv}

\* The calls made so far, each with what it returned, are kept in fnOut.
InitRegistry ==
    /\ \E env \in RegistryEnvs : fnIn = [op |-> "registry", env |-> env]
    /\ fnOut = <<>>
    /\ ClientIdle

\* resolve_model_info(id)
ResolveStep ==
    /\ fnIn.op = "registry"
    /\ Len(fnOut) < MaxSteps
    /\ \E id \in RegistryIds :
          fnOut' = Append(fnOut, [call |-> "resolve_model_info", id |-> id,
                                  result |-> resolve_model_info(id)])
    /\ UNCHANGED <<fnIn, clientVars>>

\* get_wrapper(id, keys...)
WrapperStep ==
    /\ fnIn.op = "registry"
    /\ Len(fnOut) < MaxSteps
    /\ \E id \in RegistryIds, keys \in RegistryKeys :
          fnOut' = Append(fnOut, [call |-> "get_wrapper", id |-> id,
                                  result |-> get_wrapper(id, keys, fnIn.env)])
    /\ UNCHANGED <<fnIn, clientVars>>

NextRegistry == ResolveStep \/ WrapperStep

SpecRegistry == InitRegistry /\ [][NextRegistry]_vars

\* The positions of the resolutions in the run.
Resolutions == {i \in 1..Len(fnOut) : fnOut[i].call = "resolve_model_info"}

SinkMessages ==
    {<<Message("user", <<TextBlock(<<"b", "b", "b", "b">>)>>)>>,
     <<Message("user", <<ImageBlock(ImageLoad("photo.png")), TextBlock(<<"a">>)>>)>>,
     <<Message("user", <<ImageBlock(ImageLoad("corrupt.png")), TextBlock(<<"a">>)>>)>>,
     <<Message("user", <<TextBlock(<<"a">>)>>),
       Message("assistant", <<TextBlock(<<"h", "i">>)>>),
       Message("user", <<TextBlock(<<"b", "b", "b", "b">>)>>)>>}

InitSink ==
    /\ \E self \in AdapterSelves \cup {Wrapper("MockWrapper", None, None)},
          messages \in SinkMessages, prompt \in SystemPromptArgs,
          thinking \in BOOLEAN :
          \E reply \in Replies(self.class) :
              fnIn = [op |-> "messages", self |-> self,
                      a |-> AdapterArgs(<<"model">>, messages, prompt, Some(100),
                                        "0.0", <<>>, thinking, None),
                      reply |-> reply]
    /\ fnOut = None
    /\ ClientIdle

\* AIWrapper.messages(model_name, messages, system_prompt, ...)
ApplySink ==
    /\ fnIn.op = "messages"
    /\ fnOut = None
    /\ \E r \in {AIWrapper_messages(fnIn.self, fnIn.a, fnIn.reply)} :
          fnOut' = Some(r)
    /\ UNCHANGED <<fnIn, clientVars>>

SpecSink == InitSink /\ [][ApplySink]_vars

Requested == fnOut # None /\ fnIn.op = "messages"

\* The adapter's backend call returned a response.
BackendReturned == _messages(fnIn.self, fnIn.a, fnIn.reply).ok

\* C28: within one request the token-usage sink is invoked only after the
\* backend call has returned a response, for the input estimate first and
\* the output estimate second; a request whose backend call fails invokes
\* the sink zero times.
SinkOnlyAfterResponse ==
    Requested =>
        /\ ~BackendReturned => fnOut[1].rows = <<>>
        /\ fnOut[1].rows # <<>> =>
              /\ BackendReturned
              /\ Len(fnOut[1].rows) = 2
              /\ fnOut[1].rows[1].direction = "input"
              /\ fnOut[1].rows[2].direction = "output"
              /\ fnOut[1].rows[1].n_tokens =
                    count_tokens_input(fnIn.a.messages, fnIn.a.system_prompt)[1]
              /\ fnOut[1].rows[2].n_tokens =
                    count_tokens_output(fnOut[1].response.content)

\* A backend answered a request and both rows were logged.
RowsLoggedWitness ==
    /\ Requested
    /\ fnIn.self.class = "GPTWrapper"
    /\ BackendReturned
    /\ Len(fnOut[1].rows) = 2
    /\ fnOut[1].rows[1].n_tokens > 0

\* A backend call failed and nothing was logged.
FailedRequestWitness ==
    /\ Requested
    /\ fnIn.reply.kind = "error"
    /\ ~fnOut[1].ok
    /\ fnOut[1].rows = <<>>

====
